---- MODULE Spec2Model ----
(***************************************************************************)
(* Model of the mm0-rs language server core (src/mm0-rs/src/server.rs), of *)
(* the MIR context tree (src/mm0-rs/src/mmc/types/mir.rs) and of the       *)
(* integer types and operations (src/mm0-rs/src/mmc/types/mod.rs).         *)
(*                                                                         *)
(* The specifications share the variables:                                 *)
(*   Spec / FairSpec : the server: dispatcher thread, worker thread, VFS,  *)
(*                     job queue and its condition variable;               *)
(*   SpecReq / FairSpecReq : the dispatcher with every kind of message and *)
(*                     the request handler threads, without the worker;    *)
(*   SpecJobs        : the Jobs object driven through its methods with     *)
(*                     arbitrary batches;                                  *)
(*   SpecCtx         : the Contexts object driven through extend;          *)
(*   SpecInt         : one integer operation applied to sampled BigInts;   *)
(*   SpecTy          : two integer types compared;                         *)
(*   SpecCfg         : the Cfg object driven through new_block, terminate; *)
(*   SpecWorker      : the worker on one pending job and any VFS;          *)
(*   SpecDirty       : one call of VFS::dirty on any graph of three files. *)
(***************************************************************************)
EXTENDS Integers, Sequences, FiniteSets, TLC

VARIABLES
  vfs,        \* VFS.0: the map path -> VirtualFile (its domain = the open paths)
  vfsLock,    \* state of the VFS mutex: "free", "held" (for ever, by a blocked thread), "poisoned"
  jobs,       \* Jobs.0: [running : BOOLEAN, q : Seq(Job)]; running = FALSE is None
  wpc,        \* worker thread position in Jobs::new_worker
  wjob,       \* the job the worker popped
  wres,       \* the worker's locals after parse and elaborate
  dpc,        \* dispatcher thread: "recv", "exited", "deadlocked", "panicked"
  msgs,       \* number of LSP messages handled so far
  diags,      \* last publishDiagnostics sent for each path
  lastDeps,   \* history: deps reported by the last completed elaboration of each path
  edited,     \* history: the open paths changed by didChange since they were opened
  derr,       \* the error the dispatcher printed for the last message, "none" if it was Ok
  reqs,       \* OpenRequests: the map request id -> cancellation flag
  handlers,   \* the number of live request handler threads of each request id
  resps,      \* the responses sent for each request id
  reused,     \* history: the ids requested again while a request of that id was open
  arg1,       \* the first BigInt handed to an integer operation
  arg2,       \* the second BigInt handed to an integer operation
  ires,       \* the integer operation applied and what it returned
  bargs,      \* the booleans handed to a boolean operation, <<>> when none were drawn
  bres,       \* the bool-valued operation applied and what it returned
  tcmp,       \* the last comparison of two integer types
  ctxs,       \* Contexts.0: the vector of CtxBuf
  issued,     \* history: the context ids handed out (ROOT and results of extend)
  lastExt,    \* history: the last call of Contexts::extend
  blocks,     \* Cfg.blocks: the vector of BasicBlock
  lastBlk     \* history: the last call of Cfg::new_block or BasicBlock::terminate

vars == <<vfs, vfsLock, jobs, wpc, wjob, wres, dpc, msgs, diags, lastDeps,
          edited, derr, reqs, handlers, resps, reused, ctxs, issued, lastExt,
          arg1, arg2, ires, bargs, bres, tcmp, blocks, lastBlk>>

srvVars == <<vfs, vfsLock, jobs, wpc, wjob, wres, dpc, msgs, diags, lastDeps,
             edited, derr>>

logVars == <<edited, derr>>

reqVars == <<reqs, handlers, resps, reused>>

ctxVars == <<ctxs, issued, lastExt, blocks, lastBlk>>

intVars == <<arg1, arg2, ires, bargs, bres, tcmp>>

-----------------------------------------------------------------------------
(* Bounds of the model *)

\* LSP messages the dispatcher receives in one run
MaxMsgs == 4

\* jobs in one batch handed to Jobs::extend in SpecJobs
MaxBatch == 2

\* context buffers allocated in SpecCtx
MaxBufs == 3

\* the files the client works with
Paths == {"A", "B"}

\* the texts a file may hold; "t1" has a parse error
Texts == {"t0", "t1"}

\* edit start positions; "p0" is Position::new(0, 0)
Positions == {"p0", "p1"}

\* the variables and types put in contexts
VarIds == {"v1", "v2"}

ExprTys == {"t"}

-----------------------------------------------------------------------------
(* Jobs *)

Elaborate(path, start) == [kind |-> "Elaborate", path |-> path, start |-> start]

DepChange(path) == [kind |-> "DepChange", path |-> path, start |-> "p0"]

Job == [kind : {"Elaborate"}, path : Paths, start : Positions]
         \cup [kind : {"DepChange"}, path : Paths, start : {"p0"}]

NoJob == [kind |-> "none", path |-> "none", start |-> "p0"]

BatchPaths(new) == {new[i].path : i \in DOMAIN new}

RECURSIVE Retain(_, _)
\* jobs.retain(|job| new.iter().all(|njob| njob.path() != job.path())): keep, in
\* order, the pending jobs whose path is the path of no job of new
Retain(q, new) ==
  IF q = <<>> THEN <<>>
  ELSE IF Head(q).path \notin BatchPaths(new) THEN <<Head(q)>> \o Retain(Tail(q), new)
       ELSE Retain(Tail(q), new)

\* a slip in extend: the batch is put in front of the jobs kept
JobsExtendPrepends(js, new) ==
  IF new = <<>> THEN [jobs |-> js, notify |-> FALSE]
  ELSE IF js.running
       THEN [jobs |-> [js EXCEPT !.q = new \o Retain(js.q, new)], notify |-> TRUE]
       ELSE [jobs |-> js, notify |-> FALSE]

\* Jobs::extend: the new value of the slot and whether notify_one is called
JobsExtend(js, new) ==
  IF new = <<>> THEN [jobs |-> js, notify |-> FALSE]
  ELSE IF js.running
       THEN [jobs |-> [js EXCEPT !.q = Retain(js.q, new) \o new], notify |-> TRUE]
       ELSE [jobs |-> js, notify |-> FALSE]

\* Condvar::notify_one / notify_all with one worker: a waiting worker is woken,
\* otherwise the notification is lost
Notify(pc) == IF pc = "waiting" THEN "woken" ELSE pc

\* Jobs::stop: the slot becomes None
JobsStop(js) == [running |-> FALSE, q |-> <<>>]

-----------------------------------------------------------------------------
(* Parser and elaborator, as far as the server depends on them *)

\* the number of statements of a text
NStmts(text) == IF text = "t0" THEN 1 ELSE 2

\* the parse errors of a text
ParseErrs(text) == IF text = "t1" THEN {"e1"} ELSE {}

NoAst == [source |-> "none", stmts |-> 0]

\* parse(text, old): the AST of text with its errors; idx counts the reused statements
Parse(text, hasOld, start) ==
  [idx  |-> IF hasOld /\ start = "p1" THEN 1 ELSE 0,
   errs |-> ParseErrs(text),
   ast  |-> [source |-> text, stmts |-> NStmts(text)]]

\* elaborate(ast, old): the dependency lists it may report, over the open files
ElabDeps(v) == SUBSET (DOMAIN v)

-----------------------------------------------------------------------------
(* Virtual files *)

NoCache == [st |-> "None", ast |-> NoAst, deps |-> {}]

DirtyCache(ast) == [st |-> "Dirty", ast |-> ast, deps |-> {}]

\* a slip in the worker: the cache is left Dirty after the run
ReadyCacheStaysDirty(ast, deps) == [st |-> "Dirty", ast |-> ast, deps |-> {}]

ReadyCache(ast, deps) == [st |-> "Ready", ast |-> ast, deps |-> deps]

\* VirtualFile::new: saved text, no parse, no downstream file
NewVirtualFile(text) ==
  [text |-> text, saved |-> TRUE, parsed |-> NoCache, downstream |-> {}]

\* the mutexes
VfsMutex == <<"vfs", "">>

ParsedMutex(path) == <<"parsed", path>>

DownMutex(path) == <<"downstream", path>>

TextMutex(path) == <<"text", path>>

\* what a thread does to the mutexes, in program order: a call of lock() on m,
\* the drop of the guard of m, and a call of VFS::dirty on a path
Lock(m) == [op |-> "lock", m |-> m]

Unlock(m) == [op |-> "unlock", m |-> m]

CallDirty(path) == [op |-> "dirty", m |-> <<"call", path>>]

\* the mutexes whose guard is alive when the thread comes to the k-th of evs
HeldBefore(evs, k) ==
  {evs[i].m : i \in {i \in 1..(k - 1) :
                       /\ evs[i].op = "lock"
                       /\ \A j \in (i + 1)..(k - 1) : evs[j] # Unlock(evs[i].m)}}

\* the order in which a HashSet is iterated: the members of S in the order of ord
IterOrder(S, ord) == SelectSeq(ord, LAMBDA p : p \in S)

\* all iteration orders
Orders == {o \in [1..Cardinality(Paths) -> Paths] : \A p \in Paths : \E i \in DOMAIN o : o[i] = p}

\* a slip in dirty: the AST of the cache is dropped
MarkDirtyDropsAst(c) == IF c.st = "None" THEN c ELSE DirtyCache(NoAst)

\* the match in VFS::dirty: a Ready cache becomes Dirty with the same AST
MarkDirty(c) == IF c.st = "None" THEN c ELSE DirtyCache(c.ast)

RECURSIVE Dirty(_, _, _, _, _)
RECURSIVE DirtyAll(_, _, _, _, _)
\* VFS::dirty called by a thread holding the mutexes in held; st is "ok" when it
\* returns, "relock" when it locks a mutex the thread holds, "panic" when the
\* lookup of path is unwrapped on None
Dirty(held, v, q, path, ord) ==
  LET q1 == Append(q, DepChange(path)) IN
  IF VfsMutex \in held THEN [st |-> "relock", q |-> q1, v |-> v]
  ELSE IF path \notin DOMAIN v THEN [st |-> "panic", q |-> q1, v |-> v]
  ELSE IF ParsedMutex(path) \in held THEN [st |-> "relock", q |-> q1, v |-> v]
  ELSE LET v1 == [v EXCEPT ![path].parsed = MarkDirty(@)] IN
       IF DownMutex(path) \in held THEN [st |-> "relock", q |-> q1, v |-> v1]
       ELSE DirtyAll(held \cup {DownMutex(path)}, v1, q1,
                     IterOrder(v1[path].downstream, ord), ord)

\* the loop "for dep in downstream.lock()?.clone() { self.dirty(queue, &dep)? }",
\* run while the mutexes in held are held
DirtyAll(held, v, q, deps, ord) ==
  IF deps = <<>> THEN [st |-> "ok", q |-> q, v |-> v]
  ELSE LET r == Dirty(held, v, q, Head(deps), ord) IN
       IF r.st # "ok" THEN r ELSE DirtyAll(held, r.v, r.q, Tail(deps), ord)

\* VFS::open_virt; st "err" is the Err of a poisoned mutex
OpenVirt(v, lock, path, text, ord) ==
  LET q0 == <<Elaborate(path, "p0")>> IN
  IF lock = "poisoned" THEN [st |-> "err", q |-> q0, v |-> v]
  ELSE IF path \in DOMAIN v
       THEN DirtyAll({VfsMutex, DownMutex(path)}, v, q0,
                     IterOrder(v[path].downstream, ord), ord)
       ELSE [st |-> "ok", q |-> q0,
             v |-> [p \in DOMAIN v \cup {path} |->
                      IF p = path THEN NewVirtualFile(text) ELSE v[p]]]

\* VFS::close
Close(v, lock, path, ord) ==
  IF lock = "poisoned" THEN [st |-> "err", q |-> <<>>, v |-> v]
  ELSE IF path \notin DOMAIN v THEN [st |-> "ok", q |-> <<>>, v |-> v]
  ELSE LET v1 == [p \in DOMAIN v \ {path} |-> v[p]] IN
       IF ~v[path].saved
       THEN DirtyAll({VfsMutex, DownMutex(path)}, v1, <<>>,
                     IterOrder(v[path].downstream, ord), ord)
       ELSE [st |-> "ok", q |-> <<>>, v |-> v1]

RECURSIVE DirtyEvents(_, _, _, _)
RECURSIVE DirtyAllEvents(_, _, _, _)
\* what the thread of VFS::dirty does to the mutexes, in program order, up to
\* its return (ok) or to the lock() or unwrap it stops on. The guard of
\* downstream.lock() is a temporary of the iterator expression of the for loop
\* and lives to the end of the loop.
DirtyEvents(held, v, path, ord) ==
  LET ev0 == <<CallDirty(path), Lock(VfsMutex)>>
      ev1 == ev0 \o <<Unlock(VfsMutex), Lock(ParsedMutex(path))>>
      ev2 == ev1 \o <<Unlock(ParsedMutex(path)), Lock(DownMutex(path))>>
  IN
  IF VfsMutex \in held \/ path \notin DOMAIN v THEN [ok |-> FALSE, ev |-> ev0]
  ELSE IF ParsedMutex(path) \in held THEN [ok |-> FALSE, ev |-> ev1]
  ELSE IF DownMutex(path) \in held THEN [ok |-> FALSE, ev |-> ev2]
  ELSE LET r == DirtyAllEvents(held \cup {DownMutex(path)}, v,
                               IterOrder(v[path].downstream, ord), ord)
       IN [ok |-> r.ok,
           ev |-> ev2 \o r.ev \o (IF r.ok THEN <<Unlock(DownMutex(path))>> ELSE <<>>)]

\* the same for the loop over the cloned downstream set
DirtyAllEvents(held, v, deps, ord) ==
  IF deps = <<>> THEN [ok |-> TRUE, ev |-> <<>>]
  ELSE LET r == DirtyEvents(held, v, Head(deps), ord) IN
       IF ~r.ok THEN r
       ELSE LET rest == DirtyAllEvents(held, v, Tail(deps), ord) IN
            [ok |-> rest.ok, ev |-> r.ev \o rest.ev]

\* the same for VFS::open_virt, called with the VFS mutex free
OpenVirtEvents(v, path, ord) ==
  IF path \in DOMAIN v
  THEN LET r == DirtyAllEvents({VfsMutex, DownMutex(path)}, v,
                               IterOrder(v[path].downstream, ord), ord)
       IN <<Lock(VfsMutex), Lock(DownMutex(path))>> \o r.ev \o
            (IF r.ok THEN <<Unlock(DownMutex(path)), Unlock(VfsMutex)>> ELSE <<>>)
  ELSE <<Lock(VfsMutex), Unlock(VfsMutex)>>

\* the same for VFS::close: the guard of text.lock() is dropped at the end of
\* the if condition
CloseEvents(v, path, ord) ==
  IF path \notin DOMAIN v THEN <<Lock(VfsMutex), Unlock(VfsMutex)>>
  ELSE LET v1 == [p \in DOMAIN v \ {path} |-> v[p]]
           ev0 == <<Lock(VfsMutex), Lock(TextMutex(path)), Unlock(TextMutex(path))>>
       IN
       IF ~v[path].saved
       THEN LET r == DirtyAllEvents({VfsMutex, DownMutex(path)}, v1,
                                    IterOrder(v[path].downstream, ord), ord)
            IN ev0 \o <<Lock(DownMutex(path))>> \o r.ev \o
                 (IF r.ok THEN <<Unlock(DownMutex(path)), Unlock(VfsMutex)>> ELSE <<>>)
       ELSE ev0 \o <<Unlock(VfsMutex)>>

\* a slip in set_downstream: the path is inserted whatever val is
SetDownstreamInserts(v, from, to, val) ==
  [v EXCEPT ![from].downstream = @ \cup {to}]

\* the mutexes a thread locks while it holds the guard of the VFS map mutex,
\* in each method of VFS called with the map mutex free. get, set_downstream
\* and dirty drop the guard at the end of the statement that clones the Arc;
\* in open_virt the guard lives to the end of the match on the entry and in
\* close to the end of the if let, with the calls of dirty inside
LocksUnderVfs(method, v, path) ==
  CASE method = "open_virt" ->
         IF path \in DOMAIN v
         THEN {DownMutex(path)} \cup (IF v[path].downstream # {} THEN {VfsMutex} ELSE {})
         ELSE {}
    [] method = "close" ->
         IF path \in DOMAIN v
         THEN {TextMutex(path)} \cup
              (IF ~v[path].saved
               THEN {DownMutex(path)} \cup (IF v[path].downstream # {} THEN {VfsMutex} ELSE {})
               ELSE {})
         ELSE {}
    [] method \in {"get", "set_downstream", "dirty"} -> {}

\* VFS::set_downstream on a file present in the map
SetDownstream(v, from, to, val) ==
  [v EXCEPT ![from].downstream = IF val THEN @ \cup {to} ELSE @ \ {to}]

\* the result of a sequence of set_downstream calls, all with the same to and val
SetAll(v, froms, to, val) ==
  [p \in DOMAIN v |-> IF p \in froms THEN SetDownstream(v, p, to, val)[p] ELSE v[p]]

\* VFS::update_downstream: the possible outcomes. The lists are in any order, so
\* when a listed path is missing from the map (set_downstream unwraps None) any
\* part of the calls before it may have been made.
UpdateDownstream(v, old_deps, deps, to) ==
  LET rem == old_deps \ deps
      add == deps \ old_deps
  IN IF rem \ DOMAIN v # {}
     THEN {[st |-> "panic", v |-> SetAll(v, S, to, FALSE)] : S \in SUBSET (rem \cap DOMAIN v)}
     ELSE IF add \ DOMAIN v # {}
     THEN {[st |-> "panic", v |-> SetAll(SetAll(v, rem, to, FALSE), S, to, TRUE)] :
             S \in SUBSET (add \cap DOMAIN v)}
     ELSE {[st |-> "ok", v |-> SetAll(SetAll(v, rem, to, FALSE), add, to, TRUE)]}

-----------------------------------------------------------------------------
(* Contexts: the context tree of the MIR *)

\* entries a context buffer may hold before the model stops extending it
MaxVars == 3

\* CtxId::ROOT
ROOT == [buf |-> 0, i |-> 0]

\* Contexts::default: one buffer, CtxBuf::default (parent ROOT, no variable)
DefaultContexts == <<[parent |-> ROOT, vars |-> <<>>]>>

\* impl Index<CtxBufId> for Contexts: buffer ids count from 0
Buf(cs, b) == cs[b + 1]

\* a slip in unshare: the fresh buffer's id counts a variable too many
UnshareIndexTooLarge(cs, id) ==
  IF Len(Buf(cs, id.buf).vars) = id.i
  THEN [ctxs |-> cs, id |-> id, buf |-> id.buf]
  ELSE [ctxs |-> Append(cs, [parent |-> id, vars |-> <<>>]),
        id |-> [buf |-> Len(cs), i |-> 2],
        buf |-> Len(cs)]

\* Contexts::unshare: the contexts, the id as updated through the &mut, and the
\* buffer returned
Unshare(cs, id) ==
  IF Len(Buf(cs, id.buf).vars) = id.i
  THEN [ctxs |-> cs, id |-> id, buf |-> id.buf]
  ELSE [ctxs |-> Append(cs, [parent |-> id, vars |-> <<>>]),
        id |-> [buf |-> Len(cs), i |-> 1],
        buf |-> Len(cs)]

\* a slip in extend: the entry is stored in slot i - 1, the last one the id sees
ExtendOverwrite(cs, ctx, var, ty) ==
  LET u == Unshare(cs, ctx) IN
  [ctxs |-> [u.ctxs EXCEPT ![u.buf + 1].vars =
               SubSeq(@, 1, Len(@) - 1) \o <<(<<var, ty>>)>>],
   id |-> u.id]

\* Contexts::extend: the contexts afterwards and the id returned
Extend(cs, ctx, var, ty) ==
  LET u == Unshare(cs, ctx) IN
  [ctxs |-> [u.ctxs EXCEPT ![u.buf + 1].vars = Append(@, <<var, ty>>)],
   id |-> u.id]

RECURSIVE CtxIter(_, _, _)
\* CtxIter::next called until None: the slice back to front, then the parent's
CtxIter(cs, buf, slice) ==
  IF slice # <<>>
  THEN <<slice[Len(slice)]>> \o CtxIter(cs, buf, SubSeq(slice, 1, Len(slice) - 1))
  ELSE IF buf = ROOT.buf THEN <<>>
  ELSE LET parent == Buf(cs, buf).parent IN
       CtxIter(cs, parent.buf, SubSeq(Buf(cs, parent.buf).vars, 1, parent.i))

\* Contexts::rev_iter, collected
RevIter(cs, id) == CtxIter(cs, id.buf, SubSeq(Buf(cs, id.buf).vars, 1, id.i))

NoExt == [valid |-> FALSE, ctx |-> ROOT, entry |-> <<"none", "none">>,
          pre |-> <<>>, ret |-> ROOT]

InitCtx ==
  /\ ctxs = DefaultContexts
  /\ issued = {ROOT}
  /\ lastExt = NoExt

-----------------------------------------------------------------------------
(* Cfg: the basic blocks of a function under construction *)

\* the basic blocks one Cfg is given
MaxBlocks == 3

\* the terminators a block is finished with (Jump to the entry block, Return)
Terminators == {"Jump", "Return"}

\* Option<Terminator>::None
NoTerm == "None"

\* BasicBlock::new
BasicBlockNew(ctx, term) == [ctx |-> ctx, stmts |-> <<>>, term |-> term]

\* Cfg::new_block: the new vector and the BlockId returned
NewBlock(bs, parent) ==
  [blocks |-> Append(bs, BasicBlockNew(parent, NoTerm)), id |-> Len(bs)]

\* a slip in terminate: the assertion is left out
TerminateUnchecked(bb, term) ==
  [panic |-> FALSE, bb |-> [bb EXCEPT !.term = term]]

\* BasicBlock::terminate: mem::replace stores the terminator, then the
\* assertion on the value it replaced
Terminate(bb, term) ==
  [panic |-> bb.term # NoTerm, bb |-> [bb EXCEPT !.term = term]]

NoBlk == [op |-> "none", id |-> 0, panic |-> FALSE]

\* Cfg::default
InitCfg ==
  /\ blocks = <<>>
  /\ lastBlk = NoBlk

-----------------------------------------------------------------------------
(* BigInt: the arbitrary-precision integers of num::BigInt *)

\* A BigInt is written in two's complement, base 256, least significant digit
\* first: d holds the digits below an endless run of the sign digit (0, or 255
\* when neg), and the last digit of d is never the sign digit.
SignDigit(neg) == IF neg THEN 255 ELSE 0

Digit(n, i) == IF i <= Len(n.d) THEN n.d[i] ELSE SignDigit(n.neg)

\* the normal form of the digits ds under the sign neg
Norm(neg, ds) ==
  LET keep == {i \in DOMAIN ds : ds[i] # SignDigit(neg)}
      len == IF keep = {} THEN 0 ELSE CHOOSE i \in keep : \A j \in keep : j <= i
  IN [neg |-> neg, d |-> SubSeq(ds, 1, len)]

RECURSIVE IntDigits(_)
IntDigits(i) ==
  IF i = 0 \/ i = -1 THEN <<>> ELSE <<i % 256>> \o IntDigits(i \div 256)

\* BigInt::from of a machine integer
Big(i) == [neg |-> i < 0, d |-> IntDigits(i)]

Longest(a, b) == IF Len(a.d) >= Len(b.d) THEN Len(a.d) ELSE Len(b.d)

RECURSIVE AddDigits(_, _, _, _, _)
AddDigits(a, b, i, w, carry) ==
  IF i > w THEN <<>>
  ELSE LET s == Digit(a, i) + Digit(b, i) + carry IN
       <<s % 256>> \o AddDigits(a, b, i + 1, w, s \div 256)

\* n1 + n2
BigAdd(a, b) ==
  LET w == Longest(a, b) + 1
      ds == AddDigits(a, b, 1, w, 0)
  IN Norm(ds[w] >= 128, ds)

RECURSIVE SubDigits(_, _, _, _, _)
SubDigits(a, b, i, w, borrow) ==
  IF i > w THEN <<>>
  ELSE LET s == Digit(a, i) - Digit(b, i) - borrow IN
       <<s % 256>> \o SubDigits(a, b, i + 1, w, IF s < 0 THEN 1 ELSE 0)

\* n1 - n2
BigSub(a, b) ==
  LET w == Longest(a, b) + 1
      ds == SubDigits(a, b, 1, w, 0)
  IN Norm(ds[w] >= 128, ds)

\* -n
BigNeg(a) == BigSub(Big(0), a)

\* n1 < n2 and n1 <= n2
BigLt(a, b) == BigSub(a, b).neg

BigLe(a, b) == ~BigLt(b, a)

\* n1.max(n2) and n1.min(n2)
BigMax(a, b) == IF BigLt(a, b) THEN b ELSE a

BigMin(a, b) == IF BigLt(b, a) THEN b ELSE a

\* !n on a BigInt: every digit complemented, the sign digit too
BigNot(a) == [neg |-> ~a.neg, d |-> [i \in DOMAIN a.d |-> 255 - a.d[i]]]

RECURSIVE AndByte(_, _)
AndByte(x, y) ==
  IF x = 0 \/ y = 0 THEN 0
  ELSE (x % 2) * (y % 2) + 2 * AndByte(x \div 2, y \div 2)

\* n1 & n2, n1 | n2, n1 ^ n2 on BigInt: bitwise on the two's complement forms
BigAnd(a, b) ==
  Norm(a.neg /\ b.neg, [i \in 1..Longest(a, b) |-> AndByte(Digit(a, i), Digit(b, i))])

BigOr(a, b) ==
  Norm(a.neg \/ b.neg,
       [i \in 1..Longest(a, b) |->
          Digit(a, i) + Digit(b, i) - AndByte(Digit(a, i), Digit(b, i))])

BigXor(a, b) ==
  Norm(a.neg # b.neg,
       [i \in 1..Longest(a, b) |->
          Digit(a, i) + Digit(b, i) - 2 * AndByte(Digit(a, i), Digit(b, i))])

RECURSIVE MulDigits(_, _, _)
\* the digits of a natural number times one digit
MulDigits(ds, m, carry) ==
  IF ds = <<>> THEN (IF carry = 0 THEN <<>> ELSE <<carry>>)
  ELSE LET s == Head(ds) * m + carry IN
       <<s % 256>> \o MulDigits(Tail(ds), m, s \div 256)

RECURSIVE MulNat(_, _)
\* the product of two natural numbers given by their digits
MulNat(ds, es) ==
  IF es = <<>> THEN Big(0)
  ELSE LET rest == MulNat(ds, Tail(es)) IN
       BigAdd(Norm(FALSE, MulDigits(ds, Head(es), 0)),
              Norm(FALSE, <<0>> \o rest.d))

BigAbs(a) == IF a.neg THEN BigNeg(a) ELSE a

\* n1 * n2
BigMul(a, b) ==
  LET p == MulNat(BigAbs(a).d, BigAbs(b).d) IN
  IF a.neg # b.neg THEN BigNeg(p) ELSE p

\* 2^k
Pow2(k) == [neg |-> FALSE, d |-> [i \in 1..(k \div 8 + 1) |-> IF i = k \div 8 + 1 THEN 2 ^ (k % 8) ELSE 0]]

\* n << k
BigShl(a, k) == BigMul(a, Pow2(k))

\* n >> k, rounding down
BigShr(a, k) ==
  LET q == k \div 8
      r == k % 8
      w == IF Len(a.d) > q THEN Len(a.d) - q ELSE 0
  IN Norm(a.neg, [i \in 1..w |->
                    (Digit(a, q + i) \div 2 ^ r) + (Digit(a, q + i + 1) % 2 ^ r) * 2 ^ (8 - r)])

RECURSIVE DigitsValue(_)
DigitsValue(ds) == IF ds = <<>> THEN 0 ELSE Head(ds) + 256 * DigitsValue(Tail(ds))

\* a small natural number as a machine integer
ToNat(n) == DigitsValue(n.d)

-----------------------------------------------------------------------------
(* Size, IntTy, Unop and Binop of mmc/types *)

Sizes == {"S8", "S16", "S32", "S64", "Inf"}

FiniteSizes == Sizes \ {"Inf"}

\* Size::bits of a finite size
Bits(sz) == CASE sz = "S8" -> 8 [] sz = "S16" -> 16 [] sz = "S32" -> 32 [] sz = "S64" -> 64

\* IntTy::Int(sz), which cannot be called Int here, and IntTy::UInt(sz)
SInt(sz) == [kind |-> "Int", size |-> sz]

UInt(sz) == [kind |-> "UInt", size |-> sz]

IntTys == {SInt(sz) : sz \in Sizes} \cup {UInt(sz) : sz \in Sizes}

\* iN::try_from(n).is_ok() when signed, uN::try_from(n).is_ok() otherwise, N = bits
TryFrom(signed, bits, n) ==
  IF signed THEN BigLe(BigNeg(Pow2(bits - 1)), n) /\ BigLt(n, Pow2(bits - 1))
  ELSE ~n.neg /\ BigLt(n, Pow2(bits))

\* a slip in contains: the upper bound of the type is let in
ContainsUpperBound(ty, n) ==
  IF ty.size = "Inf" THEN ty.kind = "Int" \/ ~n.neg
  ELSE \/ TryFrom(ty.kind = "Int", Bits(ty.size), n)
       \/ n = Pow2(IF ty.kind = "Int" THEN Bits(ty.size) - 1 ELSE Bits(ty.size))

\* Size as the derived Ord has it: S8 < S16 < S32 < S64 < Inf
SizeRank(sz) ==
  CASE sz = "S8" -> 0 [] sz = "S16" -> 1 [] sz = "S32" -> 2 [] sz = "S64" -> 3 [] sz = "Inf" -> 4

\* PartialOrd::le of IntTy
IntTyLe(t1, t2) ==
  CASE t1.kind = t2.kind -> SizeRank(t1.size) <= SizeRank(t2.size)
    [] t1.kind = "Int" /\ t2.kind = "UInt" -> FALSE
    [] t1.kind = "UInt" /\ t2.kind = "Int" -> SizeRank(t1.size) < SizeRank(t2.size)

\* a slip in partial_cmp: Less and Greater the other way round
PartialCmpSwapped(t1, t2) ==
  CASE IntTyLe(t1, t2) /\ IntTyLe(t2, t1) -> "Equal"
    [] IntTyLe(t1, t2) /\ ~IntTyLe(t2, t1) -> "Greater"
    [] ~IntTyLe(t1, t2) /\ IntTyLe(t2, t1) -> "Less"
    [] OTHER -> "None"

\* PartialOrd::partial_cmp of IntTy: the match on (self <= other, other <= self)
PartialCmp(t1, t2) ==
  CASE IntTyLe(t1, t2) /\ IntTyLe(t2, t1) -> "Equal"
    [] IntTyLe(t1, t2) /\ ~IntTyLe(t2, t1) -> "Less"
    [] ~IntTyLe(t1, t2) /\ IntTyLe(t2, t1) -> "Greater"
    [] OTHER -> "None"

\* PartialOrd::lt, gt and ge of IntTy; != is the derived PartialEq
IntTyLt(t1, t2) == IntTyLe(t1, t2) /\ t1 # t2

IntTyGt(t1, t2) == IntTyLt(t2, t1)

IntTyGe(t1, t2) == IntTyLe(t2, t1)

\* IntTy::contains
Contains(ty, n) ==
  IF ty.size = "Inf" THEN ty.kind = "Int" \/ ~n.neg
  ELSE TryFrom(ty.kind = "Int", Bits(ty.size), n)

NoTy == [kind |-> "none", size |-> "none"]

\* the unary operations
Neg == [op |-> "Neg", ty |-> NoTy]

Not == [op |-> "Not", ty |-> NoTy]

BitNot(sz) == [op |-> "BitNot", ty |-> [kind |-> "none", size |-> sz]]

As(ty) == [op |-> "As", ty |-> ty]

Unops == {Neg, Not} \cup {BitNot(sz) : sz \in Sizes} \cup {As(ty) : ty \in IntTys}

\* the binary operations
Binop(name) == [op |-> name, ty |-> NoTy]

IntBinopNames == {"Add", "Mul", "Sub", "Max", "Min", "BitAnd", "BitOr", "BitXor", "Shl", "Shr"}

IntBinops == {Binop(b) : b \in IntBinopNames}

Binops == IntBinops \cup {Binop(b) : b \in {"And", "Or", "Lt", "Le", "Eq", "Ne"}}

\* Option<BigInt>, and a call that panics
Some(v) == [st |-> "Some", val |-> v]

None == [st |-> "None", val |-> Big(0)]

Panicked == [st |-> "panic", val |-> Big(0)]

\* uN::MAX
UMax(bits) == BigSub(Pow2(bits), Big(1))

\* a slip in the cast: the value is kept as it is
CastSignedKeeps(bits, v) == v

\* v as iN for v of type uN
CastSigned(bits, v) == IF BigLt(v, Pow2(bits - 1)) THEN v ELSE BigSub(v, Pow2(bits))

\* the macro truncate_signed
TruncateSigned(bits, n) ==
  IF TryFrom(TRUE, bits, n) THEN n ELSE CastSigned(bits, BigAnd(n, UMax(bits)))

\* the macro truncate_unsigned
TruncateUnsigned(bits, n) ==
  IF TryFrom(FALSE, bits, n) THEN n ELSE BigAnd(n, UMax(bits))

\* a slip in BitNot: the fixed sizes computed as the unbounded one
BitNotAsInf(bits, x) == BigNot(x)

\* !x on a uN: every one of the N bits complemented
BitNotFixed(bits, x) == BigXor(x, UMax(bits))

\* Unop::apply_int
ApplyInt(u, n) ==
  CASE u.op = "Neg" -> Some(BigNeg(n))
    [] u.op = "Not" -> None
    [] u.op = "BitNot" ->
         IF u.ty.size = "Inf" THEN Some(BigNot(n))
         ELSE IF TryFrom(FALSE, Bits(u.ty.size), n)
              THEN Some(BitNotFixed(Bits(u.ty.size), n))
              ELSE None
    [] u.op = "As" ->
         IF u.ty.size = "Inf"
         THEN (IF u.ty.kind = "Int" THEN Some(n) ELSE Panicked)
         ELSE IF u.ty.kind = "Int" THEN Some(TruncateSigned(Bits(u.ty.size), n))
              ELSE Some(TruncateUnsigned(Bits(u.ty.size), n))

\* the result of a bool-valued method, and a call that panics
Ret(b) == [panic |-> FALSE, val |-> b]

RetPanic == [panic |-> TRUE, val |-> FALSE]

\* a slip in preserves_nat: Sub is listed with the others
PreservesNatSub(b) ==
  IF b \in IntBinops THEN Ret(TRUE) ELSE RetPanic

\* Binop::preserves_nat
PreservesNat(b) ==
  IF b.op \in {"Add", "Mul", "Max", "Min", "BitAnd", "BitOr", "BitXor", "Shl", "Shr"}
  THEN Ret(TRUE)
  ELSE IF b.op = "Sub" THEN Ret(FALSE)
  ELSE RetPanic

\* Binop::preserves_usize
PreservesUsize(b) ==
  IF b.op \in {"Add", "Mul", "Max", "Min", "Shl", "Sub"} THEN Ret(FALSE)
  ELSE IF b.op \in {"BitAnd", "BitOr", "BitXor", "Shr"} THEN Ret(TRUE)
  ELSE RetPanic

\* the width of usize
UsizeBits == 64

\* usize::try_from(n).is_ok()
FitsUsize(n) == TryFrom(FALSE, UsizeBits, n)

\* Binop::apply_int_int
ApplyIntInt(b, n1, n2) ==
  CASE b.op = "Add" -> Some(BigAdd(n1, n2))
    [] b.op = "Mul" -> Some(BigMul(n1, n2))
    [] b.op = "Sub" -> Some(BigSub(n1, n2))
    [] b.op = "Max" -> Some(BigMax(n1, n2))
    [] b.op = "Min" -> Some(BigMin(n1, n2))
    [] b.op = "BitAnd" -> Some(BigAnd(n1, n2))
    [] b.op = "BitOr" -> Some(BigOr(n1, n2))
    [] b.op = "BitXor" -> Some(BigXor(n1, n2))
    [] b.op = "Shl" -> IF FitsUsize(n2) THEN Some(BigShl(n1, ToNat(n2))) ELSE None
    [] b.op = "Shr" -> IF FitsUsize(n2) THEN Some(BigShr(n1, ToNat(n2))) ELSE None
    [] OTHER -> None

\* a slip in apply_bool: an integer operation returns its argument
ApplyBoolLenient(u, b) == IF u.op = "Not" THEN Ret(~b) ELSE Ret(b)

\* Unop::apply_bool
ApplyBool(u, b) == IF u.op = "Not" THEN Ret(~b) ELSE RetPanic

\* Binop::apply_int_bool
ApplyIntBool(b, n1, n2) ==
  CASE b.op = "Lt" -> Ret(BigLt(n1, n2))
    [] b.op = "Le" -> Ret(BigLe(n1, n2))
    [] b.op = "Eq" -> Ret(n1 = n2)
    [] b.op = "Ne" -> Ret(n1 # n2)
    [] OTHER -> RetPanic

\* Binop::apply_bool_bool
ApplyBoolBool(b, b1, b2) ==
  CASE b.op = "And" -> Ret(b1 /\ b2)
    [] b.op = "Or" -> Ret(b1 \/ b2)
    [] OTHER -> RetPanic

\* the largest shift the model carries out
MaxShift == 64

\* the small integers handed to the operations lie in -SmallMax..SmallMax
SmallMax == 5

\* the values next to the bounds of the fixed-size types
Edges ==
  UNION {{BigSub(Pow2(k), Big(1)), Pow2(k), BigNeg(Pow2(k)), BigSub(BigNeg(Pow2(k)), Big(1))} :
           k \in {7, 8, 15, 16, 31, 32, 63, 64}}

\* the integers handed to the operations
Samples ==
  {Big(i) : i \in -SmallMax..SmallMax} \cup {Big(i) : i \in {8, 16, 32, 64, 130}} \cup Edges

NoApp == [kind |-> "none", op |-> [op |-> "none", ty |-> NoTy], res |-> None]

\* no integer operation is under way in the server
NoFold == [fn |-> "none", op |-> [op |-> "none", ty |-> NoTy], res |-> Ret(FALSE)]

NoCmp == [valid |-> FALSE, t1 |-> NoTy, t2 |-> NoTy, le |-> FALSE, lt |-> FALSE,
          gt |-> FALSE, ge |-> FALSE, cmp |-> "None"]

InitInt ==
  /\ arg1 = Big(0)
  /\ arg2 = Big(0)
  /\ ires = NoApp
  /\ bargs = <<>>
  /\ bres = NoFold
  /\ tcmp = NoCmp

-----------------------------------------------------------------------------
(* Requests: OpenRequests and the request handlers *)

\* the request ids the client uses
ReqIds == {"r1", "r2"}

\* a slip in the Request arm: the flag of an id already in the map is kept
InsertRequestKeepsFlag(rq, id) ==
  [i \in DOMAIN rq \cup {id} |-> IF i \in DOMAIN rq THEN rq[i] ELSE FALSE]

\* reqs.lock()?.insert(id.clone(), cancel.clone()) with a fresh flag, false
InsertRequest(rq, id) == [i \in DOMAIN rq \cup {id} |-> IF i = id THEN FALSE ELSE rq[i]]

\* a slip in the Response arm: an unknown id is entered with its flag set
SetCancelInserts(rq, id) ==
  IF id \in DOMAIN rq
  THEN [st |-> "ok", reqs |-> [rq EXCEPT ![id] = TRUE]]
  ELSE [st |-> "response to unknown request",
        reqs |-> [i \in DOMAIN rq \cup {id} |-> IF i = id THEN TRUE ELSE rq[i]]]

\* a slip in the Response arm: the flag of every open request is set
SetCancelSetsAll(rq, id) ==
  IF id \in DOMAIN rq
  THEN [st |-> "ok", reqs |-> [i \in DOMAIN rq |-> TRUE]]
  ELSE [st |-> "response to unknown request", reqs |-> rq]

\* the Response arm of Server::run: the flag of a known id is set, an unknown id
\* is the error "response to unknown request"
SetCancel(rq, id) ==
  IF id \in DOMAIN rq
  THEN [st |-> "ok", reqs |-> [rq EXCEPT ![id] = TRUE]]
  ELSE [st |-> "response to unknown request", reqs |-> rq]

\* a slip in finish: the id is left in the map
FinishKeepsId(rq, id) == rq

\* RequestHandler::finish: self.reqs.lock()?.remove(&self.id)
Finish(rq, id) == [i \in DOMAIN rq \ {id} |-> rq[i]]

\* Server::new: no open request, no handler thread, nothing sent
InitReq ==
  /\ reqs = [i \in {} |-> FALSE]
  /\ handlers = [i \in ReqIds |-> 0]
  /\ resps = [i \in ReqIds |-> [ok |-> 0, err |-> 0]]
  /\ reused = {}

-----------------------------------------------------------------------------
(* The server: initial state (Server::new) *)

NoRes == [ast |-> NoAst, errs |-> {}, deps |-> {}, old_deps |-> {}, orphan |-> FALSE,
          idx |-> 0, env |-> FALSE, parser |-> FALSE]

InitSrv ==
  /\ vfs = [p \in {} |-> NewVirtualFile("t0")]
  /\ vfsLock = "free"
  /\ jobs = [running |-> TRUE, q |-> <<>>]
  /\ wpc = "start"
  /\ wjob = NoJob
  /\ wres = NoRes
  /\ dpc = "recv"
  /\ msgs = 0
  /\ diags = [p \in Paths |-> {}]
  /\ lastDeps = [p \in Paths |-> {}]
  /\ edited = {}
  /\ derr = "none"

Init == InitSrv /\ InitCtx /\ InitCfg /\ InitReq /\ InitInt

-----------------------------------------------------------------------------
(* The dispatcher thread: Server::run *)

\* what the dispatcher thread becomes when a VFS call made for a notification
\* returns (ok, err), locks a mutex it holds (relock) or unwraps None (panic).
\* Locking a std Mutex twice on one thread either blocks for ever, the mutex
\* staying held, or panics, which poisons the mutex.
Outcome(st) ==
  CASE st \in {"ok", "err"} -> {[dpc |-> "recv", lock |-> vfsLock]}
    [] st = "relock" -> {[dpc |-> "deadlocked", lock |-> "held"],
                         [dpc |-> "panicked", lock |-> "poisoned"]}
    [] st = "panic" -> {[dpc |-> "panicked", lock |-> "poisoned"]}

\* jobs.extend(queue) after a VFS call that returned Ok
Enqueue(st, queue) ==
  LET e == JobsExtend(jobs, queue) IN
  IF st = "ok"
  THEN /\ jobs' = e.jobs
       /\ wpc' = IF e.notify THEN Notify(wpc) ELSE wpc
  ELSE UNCHANGED <<jobs, wpc>>

\* "textDocument/didOpen"
DidOpen(path, text, ord) ==
  /\ dpc = "recv"
  /\ msgs < MaxMsgs
  /\ msgs' = msgs + 1
  /\ LET r == OpenVirt(vfs, vfsLock, path, text, ord) IN
       /\ vfs' = r.v
       /\ \E o \in Outcome(r.st) : dpc' = o.dpc /\ vfsLock' = o.lock
       /\ Enqueue(r.st, r.q)
       /\ derr' = IF r.st = "err" THEN "poisoned lock" ELSE "none"
  /\ UNCHANGED <<wjob, wres, diags, lastDeps, edited, ctxVars, reqVars, intVars>>

\* "textDocument/didChange" with a non-empty list of changes
DidChange(path, text, start) ==
  /\ dpc = "recv"
  /\ msgs < MaxMsgs
  /\ msgs' = msgs + 1
  /\ IF vfsLock = "poisoned" \/ path \notin DOMAIN vfs
     THEN /\ derr' = IF vfsLock = "poisoned" THEN "poisoned lock"
                     ELSE "changed nonexistent file"
          /\ UNCHANGED <<vfs, jobs, wpc, edited>>
     ELSE /\ vfs' = [vfs EXCEPT ![path].text = text, ![path].saved = TRUE]
          /\ Enqueue("ok", <<Elaborate(path, start)>>)
          /\ edited' = edited \cup {path}
          /\ derr' = "none"
  /\ UNCHANGED <<vfsLock, dpc, wjob, wres, diags, lastDeps, ctxVars, reqVars, intVars>>

\* what the dispatcher does to the mutexes in the block that applies the
\* changes of didChange: vfs.get, then the guard of text to the end of the block
DidChangeLocks(path) ==
  <<Lock(VfsMutex), Unlock(VfsMutex), Lock(TextMutex(path)), Unlock(TextMutex(path))>>

\* "textDocument/didClose"
DidClose(path, ord) ==
  /\ dpc = "recv"
  /\ msgs < MaxMsgs
  /\ msgs' = msgs + 1
  /\ LET r == Close(vfs, vfsLock, path, ord) IN
       /\ vfs' = r.v
       /\ \E o \in Outcome(r.st) : dpc' = o.dpc /\ vfsLock' = o.lock
       /\ Enqueue(r.st, r.q)
       \* the worker keeps its Arc of the file removed from the map
       /\ wres' = IF wpc = "elab" /\ wjob.path = path /\ path \notin DOMAIN r.v
                  THEN [wres EXCEPT !.orphan = TRUE] ELSE wres
       /\ edited' = edited \cap DOMAIN r.v
       /\ derr' = IF r.st = "err" THEN "poisoned lock" ELSE "none"
  /\ UNCHANGED <<wjob, diags, lastDeps, ctxVars, reqVars, intVars>>

\* the shutdown request: jobs.stop() and the loop ends
Shutdown ==
  /\ dpc = "recv"
  /\ jobs' = JobsStop(jobs)
  /\ wpc' = Notify(wpc)
  /\ dpc' = "exited"
  /\ derr' = "none"
  /\ UNCHANGED <<vfs, vfsLock, wjob, wres, msgs, diags, lastDeps, edited, ctxVars, reqVars,
                 intVars>>

\* a request of one of the four methods parse_request knows: the id is entered
\* in OpenRequests with a fresh flag and a handler thread is spawned
RequestMsg(id) ==
  /\ dpc = "recv"
  /\ msgs < MaxMsgs
  /\ msgs' = msgs + 1
  /\ reqs' = InsertRequest(reqs, id)
  /\ handlers' = [handlers EXCEPT ![id] = @ + 1]
  /\ reused' = IF handlers[id] > 0 THEN reused \cup {id} ELSE reused
  /\ derr' = "none"
  /\ UNCHANGED <<vfs, vfsLock, jobs, wpc, wjob, wres, dpc, diags, lastDeps, edited, resps,
                 ctxVars, intVars>>

\* a Response message of the client
ResponseMsg(id) ==
  /\ dpc = "recv"
  /\ msgs < MaxMsgs
  /\ msgs' = msgs + 1
  /\ reqs' = SetCancel(reqs, id).reqs
  /\ derr' = IF SetCancel(reqs, id).st = "ok" THEN "none" ELSE SetCancel(reqs, id).st
  /\ UNCHANGED <<vfs, vfsLock, jobs, wpc, wjob, wres, dpc, diags, lastDeps, edited, handlers,
                 resps, reused, ctxVars, intVars>>

\* "$/cancelRequest": the flag of a known id is set, an unknown id is ignored
CancelRequest(id) ==
  /\ dpc = "recv"
  /\ msgs < MaxMsgs
  /\ msgs' = msgs + 1
  /\ reqs' = IF id \in DOMAIN reqs THEN [reqs EXCEPT ![id] = TRUE] ELSE reqs
  /\ derr' = "none"
  /\ UNCHANGED <<vfs, vfsLock, jobs, wpc, wjob, wres, dpc, diags, lastDeps, edited, handlers,
                 resps, reused, ctxVars, intVars>>

\* the ways a message fails before the handler touches anything: from_value
\* fails, to_file_path fails, VirtualFile::new fails in open_virt
MessageErrors == {"undecodable params", "bad URI", "bad path"}

\* a message that fails with err: the closure returns Err at the ? and the loop
\* prints it
BadMessage(err) ==
  /\ dpc = "recv"
  /\ msgs < MaxMsgs
  /\ msgs' = msgs + 1
  /\ derr' = err
  /\ UNCHANGED <<vfs, vfsLock, jobs, wpc, wjob, wres, dpc, diags, lastDeps, edited, ctxVars,
                 reqVars, intVars>>

\* a request handler thread: RequestHandler::handle, which matches nothing and
\* calls finish(Ok(())): the id leaves OpenRequests and the Response is sent
HandlerFinish(id) ==
  /\ handlers[id] > 0
  /\ handlers' = [handlers EXCEPT ![id] = @ - 1]
  /\ reqs' = Finish(reqs, id)
  /\ resps' = [resps EXCEPT ![id].ok = @ + 1]
  /\ reused' = IF handlers[id] = 1 THEN reused \ {id} ELSE reused
  /\ UNCHANGED <<srvVars, ctxVars, intVars>>

-----------------------------------------------------------------------------
(* The worker thread: Jobs::new_worker *)

\* self.1.wait(self.0.lock()?): the worker waits, whatever the queue holds
WorkerWait ==
  /\ wpc = "start"
  /\ wpc' = "waiting"
  /\ UNCHANGED <<vfs, vfsLock, jobs, wjob, wres, dpc, msgs, diags, lastDeps, logVars, ctxVars, reqVars, intVars>>

\* a spurious wakeup of Condvar::wait
WorkerSpurious ==
  /\ wpc = "waiting"
  /\ wpc' = "woken"
  /\ UNCHANGED <<vfs, vfsLock, jobs, wjob, wres, dpc, msgs, diags, lastDeps, logVars, ctxVars, reqVars, intVars>>

\* the match on the slot after wait returns
WorkerWake ==
  /\ wpc = "woken"
  /\ IF ~jobs.running
     THEN wpc' = "done" /\ UNCHANGED <<jobs, wjob>>
     ELSE IF jobs.q = <<>>
          THEN wpc' = "start" /\ UNCHANGED <<jobs, wjob>>
          ELSE /\ wjob' = Head(jobs.q)
               /\ jobs' = [jobs EXCEPT !.q = Tail(jobs.q)]
               /\ wpc' = "job"
  /\ UNCHANGED <<vfs, vfsLock, wres, dpc, msgs, diags, lastDeps, logVars, ctxVars, reqVars, intVars>>

\* the match on parsed.take() in the Elaborate arm and the call of parse: what
\* parse returned, whether the parser ran, whether elaborate is handed the
\* previous environment, and the previous deps
ElaborateArm(c, text, start) ==
  [pr |-> Parse(text, c.st # "None", start), parser |-> TRUE,
   env |-> c.st = "Ready", old_deps |-> IF c.st = "Ready" THEN c.deps ELSE {}]

\* a slip in the DepChange arm: the text is parsed again whatever the cache holds
DepChangeReparses(c, text) ==
  [pr |-> Parse(text, FALSE, "p0"), parser |-> TRUE,
   env |-> c.st = "Ready", old_deps |-> IF c.st = "Ready" THEN c.deps ELSE {}]

\* the same match in the DepChange arm: a cached AST stands for the parse
DepChangeArm(c, text) ==
  [pr |-> IF c.st = "None" THEN Parse(text, FALSE, "p0")
          ELSE [idx |-> c.ast.stmts, errs |-> {}, ast |-> c.ast],
   parser |-> c.st = "None",
   env |-> c.st = "Ready", old_deps |-> IF c.st = "Ready" THEN c.deps ELSE {}]

\* what the worker does to the VFS mutex and to the text and parsed mutexes of
\* the file in the Elaborate arm: vfs.get, the match on parsed.lock()?.take()
\* whose guard lives to the end of the let statement, text.lock() in the call
\* of parse, and parsed.lock() for the cache write
ElaborateLocks(c, path) ==
  <<Lock(VfsMutex), Unlock(VfsMutex),
    Lock(ParsedMutex(path)), Unlock(ParsedMutex(path)),
    Lock(TextMutex(path)), Unlock(TextMutex(path)),
    Lock(ParsedMutex(path)), Unlock(ParsedMutex(path))>>

\* the same in the DepChange arm, where the call of parse stands in the None
\* arm of the match, inside the life of the guard of parsed
DepChangeLocks(c, path) ==
  <<Lock(VfsMutex), Unlock(VfsMutex), Lock(ParsedMutex(path))>>
    \o (IF c.st = "None" THEN <<Lock(TextMutex(path)), Unlock(TextMutex(path))>> ELSE <<>>)
    \o <<Unlock(ParsedMutex(path)),
         Lock(ParsedMutex(path)), Unlock(ParsedMutex(path))>>

\* the first half of a job: vfs.get, parsed.take(), parse, elaborate
WorkerTake ==
  /\ wpc = "job"
  /\ IF vfsLock = "held"
     THEN wpc' = "blocked" /\ UNCHANGED <<vfs, wjob, wres>>
     ELSE IF vfsLock = "poisoned"
     THEN wpc' = "panicked" /\ UNCHANGED <<vfs, wjob, wres>>
     ELSE IF wjob.path \notin DOMAIN vfs
     THEN wpc' = "start" /\ wjob' = NoJob /\ UNCHANGED <<vfs, wres>>
     ELSE LET c == vfs[wjob.path].parsed
              text == vfs[wjob.path].text
              arm == IF wjob.kind = "Elaborate" THEN ElaborateArm(c, text, wjob.start)
                     ELSE DepChangeArm(c, text)
          IN \E deps \in ElabDeps(vfs) :
               /\ wres' = [ast |-> arm.pr.ast, errs |-> arm.pr.errs, deps |-> deps,
                           old_deps |-> arm.old_deps, orphan |-> FALSE,
                           idx |-> arm.pr.idx, env |-> arm.env, parser |-> arm.parser]
               /\ vfs' = [vfs EXCEPT ![wjob.path].parsed = NoCache]
               /\ wpc' = "elab"
               /\ UNCHANGED wjob
  /\ UNCHANGED <<vfsLock, jobs, dpc, msgs, diags, lastDeps, logVars, ctxVars, reqVars, intVars>>

\* the second half: send_diagnostics, update_downstream, the cache set Ready
WorkerFinish ==
  /\ wpc = "elab"
  /\ diags' = [diags EXCEPT ![wjob.path] = wres.errs]
  /\ IF wres.old_deps = wres.deps
     THEN \* no set_downstream call: the VFS mutex is not locked
          /\ vfs' = IF wres.orphan THEN vfs
                    ELSE [vfs EXCEPT ![wjob.path].parsed = ReadyCache(wres.ast, wres.deps)]
          /\ lastDeps' = [lastDeps EXCEPT ![wjob.path] = wres.deps]
          /\ wpc' = "start" /\ wjob' = NoJob /\ wres' = NoRes
          /\ UNCHANGED vfsLock
     ELSE IF vfsLock = "held"
     THEN wpc' = "blocked" /\ UNCHANGED <<vfs, vfsLock, wjob, wres, lastDeps>>
     ELSE IF vfsLock = "poisoned"
     THEN wpc' = "panicked" /\ UNCHANGED <<vfs, vfsLock, wjob, wres, lastDeps>>
     ELSE \E o \in UpdateDownstream(vfs, wres.old_deps, wres.deps, wjob.path) :
            IF o.st = "ok"
            THEN /\ vfs' = IF wres.orphan THEN o.v
                           ELSE [o.v EXCEPT ![wjob.path].parsed =
                                              ReadyCache(wres.ast, wres.deps)]
                 /\ lastDeps' = [lastDeps EXCEPT ![wjob.path] = wres.deps]
                 /\ wpc' = "start" /\ wjob' = NoJob /\ wres' = NoRes
                 /\ UNCHANGED vfsLock
            ELSE /\ vfs' = o.v
                 /\ vfsLock' = "poisoned"
                 /\ wpc' = "panicked"
                 /\ UNCHANGED <<wjob, wres, lastDeps>>
  /\ UNCHANGED <<jobs, dpc, msgs, logVars, ctxVars, reqVars, intVars>>

-----------------------------------------------------------------------------
(* The server *)

Dispatcher ==
  \/ \E path \in Paths, text \in Texts, ord \in Orders : DidOpen(path, text, ord)
  \/ \E path \in Paths, text \in Texts, start \in Positions : DidChange(path, text, start)
  \/ \E path \in Paths, ord \in Orders : DidClose(path, ord)
  \/ Shutdown

Worker == WorkerWait \/ WorkerSpurious \/ WorkerWake \/ WorkerTake \/ WorkerFinish

Next == Dispatcher \/ Worker

Spec == Init /\ [][Next]_vars

\* the worker thread is scheduled; Condvar::wait promises no spurious wakeup
\* and the client promises no further message
FairSpec ==
  Spec /\ WF_vars(WorkerWait) /\ WF_vars(WorkerWake) /\ WF_vars(WorkerTake)
       /\ WF_vars(WorkerFinish)

-----------------------------------------------------------------------------
(* The Jobs object alone: extend with any batch, stop, and the worker *)

Batches == UNION {[1..n -> Job] : n \in 0..MaxBatch}

\* a call of Jobs::extend
ApiExtend(new) ==
  /\ jobs' = JobsExtend(jobs, new).jobs
  /\ wpc' = IF JobsExtend(jobs, new).notify THEN Notify(wpc) ELSE wpc
  /\ UNCHANGED <<vfs, vfsLock, wjob, wres, dpc, msgs, diags, lastDeps, logVars, ctxVars, reqVars, intVars>>

\* a call of Jobs::stop
ApiStop ==
  /\ jobs.running
  /\ jobs' = JobsStop(jobs)
  /\ wpc' = Notify(wpc)
  /\ UNCHANGED <<vfs, vfsLock, wjob, wres, dpc, msgs, diags, lastDeps, logVars, ctxVars, reqVars, intVars>>

NextJobs ==
  \/ \E new \in Batches : ApiExtend(new)
  \/ ApiStop
  \/ WorkerWait
  \/ WorkerSpurious
  \/ WorkerWake
  \/ WorkerTake

SpecJobs == Init /\ [][NextJobs]_vars

-----------------------------------------------------------------------------
(* The worker alone: one pending job processed on any state of the VFS *)

\* the ASTs a cache may hold
Asts == {Parse(t, FALSE, "p0").ast : t \in Texts}

\* Option<FileCache>
Caches ==
  {NoCache} \cup {DirtyCache(a) : a \in Asts}
            \cup {ReadyCache(a, ds) : a \in Asts, ds \in SUBSET Paths}

\* the states of a VirtualFile
VirtualFiles ==
  [text : Texts, saved : {TRUE}, parsed : Caches, downstream : SUBSET Paths]

\* a VFS with some files open, one job pending and the worker just notified
InitWorker ==
  /\ InitCtx /\ InitCfg /\ InitReq /\ InitInt
  /\ \E D \in SUBSET Paths : vfs \in [D -> VirtualFiles]
  /\ \E j \in Job : jobs = [running |-> TRUE, q |-> <<j>>]
  /\ vfsLock = "free"
  /\ wpc = "woken"
  /\ wjob = NoJob
  /\ wres = NoRes
  /\ dpc = "recv"
  /\ msgs = 0
  /\ diags = [p \in Paths |-> {}]
  /\ lastDeps = [p \in Paths |-> {}]
  /\ edited = {}
  /\ derr = "none"

SpecWorker == InitWorker /\ [][Worker]_vars

-----------------------------------------------------------------------------
(* VFS::dirty alone: one call, by a thread holding no mutex, on any graph of *)
(* three files                                                              *)

\* the paths of the graphs
GraphPaths == {"A", "B", "C"}

\* the iteration orders of their downstream sets
GraphOrders ==
  {o \in [1..3 -> GraphPaths] : \A p \in GraphPaths : \E i \in 1..3 : o[i] = p}

\* the caches of their files
GraphCaches ==
  {NoCache, DirtyCache(Parse("t0", FALSE, "p0").ast),
   ReadyCache(Parse("t0", FALSE, "p0").ast, {}),
   ReadyCache(Parse("t1", FALSE, "p0").ast, {"A"})}

InitDirty ==
  /\ InitCtx /\ InitCfg /\ InitReq /\ InitInt
  /\ \E D \in SUBSET GraphPaths :
       vfs \in [D -> [text : {"t0"}, saved : {TRUE}, parsed : GraphCaches,
                      downstream : SUBSET GraphPaths]]
  /\ jobs = [running |-> TRUE, q |-> <<>>]
  /\ vfsLock = "free"
  /\ wpc = "start"
  /\ wjob = NoJob
  /\ wres = NoRes
  /\ dpc = "recv"
  /\ msgs = 0
  /\ diags = [p \in Paths |-> {}]
  /\ lastDeps = [p \in Paths |-> {}]
  /\ edited = {}
  /\ derr = "none"

\* vfs.dirty(&mut queue, path)? followed by jobs.extend(queue), as its callers
\* go on when it returns
ApiDirty(path, ord) ==
  /\ dpc = "recv"
  /\ msgs = 0
  /\ msgs' = 1
  /\ LET r == Dirty({}, vfs, <<>>, path, ord) IN
       /\ vfs' = r.v
       \* the mutex locked twice here is a downstream mutex, not the VFS mutex
       /\ \E o \in Outcome(r.st) :
            dpc' = o.dpc /\ vfsLock' = IF r.st = "relock" THEN vfsLock ELSE o.lock
       /\ Enqueue(r.st, r.q)
  /\ UNCHANGED <<wjob, wres, diags, lastDeps, logVars, ctxVars, reqVars, intVars>>

NextDirty == \E path \in GraphPaths, ord \in GraphOrders : ApiDirty(path, ord)

SpecDirty == InitDirty /\ [][NextDirty]_vars

-----------------------------------------------------------------------------
(* The dispatcher with its request handlers: every kind of message, no worker *)

NextReq ==
  \/ \E id \in ReqIds : RequestMsg(id)
  \/ \E id \in ReqIds : ResponseMsg(id)
  \/ \E id \in ReqIds : CancelRequest(id)
  \/ \E err \in MessageErrors : BadMessage(err)
  \/ \E path \in Paths, text \in Texts, ord \in Orders : DidOpen(path, text, ord)
  \/ \E path \in Paths, text \in Texts, start \in Positions : DidChange(path, text, start)
  \/ \E path \in Paths, ord \in Orders : DidClose(path, ord)
  \/ Shutdown
  \/ \E id \in ReqIds : HandlerFinish(id)

SpecReq == Init /\ [][NextReq]_vars

\* the handler threads are scheduled
FairSpecReq == SpecReq /\ \A id \in ReqIds : WF_vars(HandlerFinish(id))

-----------------------------------------------------------------------------
(* The Contexts object alone: extend called on the ids handed out *)

CtxExtend(c, var, ty) ==
  /\ c \in issued
  /\ Len(ctxs) < MaxBufs \/ Len(Buf(ctxs, c.buf).vars) = c.i
  /\ Len(Buf(ctxs, c.buf).vars) < MaxVars
  /\ LET r == Extend(ctxs, c, var, ty) IN
       /\ ctxs' = r.ctxs
       /\ issued' = issued \cup {r.id}
       /\ lastExt' = [valid |-> TRUE, ctx |-> c, entry |-> <<var, ty>>,
                      pre |-> RevIter(ctxs, c), ret |-> r.id]
  /\ UNCHANGED <<srvVars, reqVars, intVars, blocks, lastBlk>>

NextCtx == \E c \in issued, var \in VarIds, ty \in ExprTys : CtxExtend(c, var, ty)

SpecCtx == Init /\ [][NextCtx]_vars

-----------------------------------------------------------------------------
(* The Cfg alone: blocks started and terminated *)

\* a call of Cfg::new_block with a context handed out before
CfgNewBlock(parent) ==
  /\ ~lastBlk.panic
  /\ Len(blocks) < MaxBlocks
  /\ LET r == NewBlock(blocks, parent) IN
       /\ blocks' = r.blocks
       /\ lastBlk' = [op |-> "new_block", id |-> r.id, panic |-> FALSE]
  /\ UNCHANGED <<srvVars, reqVars, intVars, ctxs, issued, lastExt>>

\* a call of cfg.blocks[id].terminate(term); a panic ends the construction
CfgTerminate(id, term) ==
  /\ ~lastBlk.panic
  /\ id < Len(blocks)
  /\ LET r == Terminate(blocks[id + 1], term) IN
       /\ blocks' = [blocks EXCEPT ![id + 1] = r.bb]
       /\ lastBlk' = [op |-> "terminate", id |-> id, panic |-> r.panic]
  /\ UNCHANGED <<srvVars, reqVars, intVars, ctxs, issued, lastExt>>

NextCfg ==
  \/ \E parent \in issued : CfgNewBlock(parent)
  \/ \E id \in 0..(MaxBlocks - 1), term \in Terminators : CfgTerminate(id, term)

SpecCfg == Init /\ [][NextCfg]_vars

-----------------------------------------------------------------------------
(* The operations alone: one operation applied to sampled integers, or to *)
(* booleans                                                               *)

InitInts ==
  /\ InitSrv /\ InitCtx /\ InitCfg /\ InitReq
  /\ \/ arg1 \in Samples /\ arg2 \in Samples /\ bargs = <<>>
     \/ arg1 = Big(0) /\ arg2 = Big(0) /\ bargs \in BOOLEAN \X BOOLEAN
  /\ ires = NoApp
  /\ bres = NoFold
  /\ tcmp = NoCmp

\* a call of Unop::apply_int on arg1
ApplyUnop(u) ==
  /\ ires = NoApp /\ bres = NoFold
  /\ ires' = [kind |-> "unop", op |-> u, res |-> ApplyInt(u, arg1)]
  /\ UNCHANGED <<srvVars, ctxVars, reqVars, arg1, arg2, bargs, bres, tcmp>>

\* a call of Binop::apply_int_int on arg1 and arg2; a shift is carried out for
\* the shift counts up to MaxShift
ApplyBinop(b) ==
  /\ ires = NoApp /\ bres = NoFold
  /\ b.op \in {"Shl", "Shr"} /\ FitsUsize(arg2) => BigLe(arg2, Big(MaxShift))
  /\ ires' = [kind |-> "binop", op |-> b, res |-> ApplyIntInt(b, arg1, arg2)]
  /\ UNCHANGED <<srvVars, ctxVars, reqVars, arg1, arg2, bargs, bres, tcmp>>

\* a call of Binop::apply_int_bool on arg1 and arg2
FoldIntBool(b) ==
  /\ ires = NoApp /\ bres = NoFold
  /\ bres' = [fn |-> "apply_int_bool", op |-> b, res |-> ApplyIntBool(b, arg1, arg2)]
  /\ UNCHANGED <<srvVars, ctxVars, reqVars, arg1, arg2, ires, bargs, tcmp>>

\* a call of Unop::apply_bool on the first boolean
FoldBool(u) ==
  /\ ires = NoApp /\ bres = NoFold
  /\ Len(bargs) = 2
  /\ bres' = [fn |-> "apply_bool", op |-> u, res |-> ApplyBool(u, bargs[1])]
  /\ UNCHANGED <<srvVars, ctxVars, reqVars, arg1, arg2, ires, bargs, tcmp>>

\* a call of Binop::apply_bool_bool on the two booleans
FoldBoolBool(b) ==
  /\ ires = NoApp /\ bres = NoFold
  /\ Len(bargs) = 2
  /\ bres' = [fn |-> "apply_bool_bool", op |-> b, res |-> ApplyBoolBool(b, bargs[1], bargs[2])]
  /\ UNCHANGED <<srvVars, ctxVars, reqVars, arg1, arg2, ires, bargs, tcmp>>

NextInt ==
  \/ \E u \in Unops : ApplyUnop(u)
  \/ \E b \in Binops : ApplyBinop(b)
  \/ \E b \in Binops : FoldIntBool(b)
  \/ \E u \in Unops : FoldBool(u)
  \/ \E b \in Binops : FoldBoolBool(b)

SpecInt == InitInts /\ [][NextInt]_vars

-----------------------------------------------------------------------------
(* The order of the integer types alone: two types compared *)

\* the calls t1 <= t2, t1 < t2, t1 > t2, t1 >= t2 and t1.partial_cmp(t2)
CompareTy(t1, t2) ==
  /\ tcmp' = [valid |-> TRUE, t1 |-> t1, t2 |-> t2, le |-> IntTyLe(t1, t2),
              lt |-> IntTyLt(t1, t2), gt |-> IntTyGt(t1, t2), ge |-> IntTyGe(t1, t2),
              cmp |-> PartialCmp(t1, t2)]
  /\ UNCHANGED <<srvVars, ctxVars, reqVars, arg1, arg2, ires, bargs, bres>>

NextTy == \E t1 \in IntTys, t2 \in IntTys : CompareTy(t1, t2)

SpecTy == Init /\ [][NextTy]_vars

-----------------------------------------------------------------------------
(* Properties *)

\* the paths of the pending jobs
PendingPaths == {jobs.q[i].path : i \in DOMAIN jobs.q}

\* the worker thread has died or is blocked for ever on the VFS mutex
WorkerLost == wpc \in {"panicked", "blocked"}

RECURSIVE Reach(_, _, _)
\* the files reached from the set S along downstream edges of v in at most n steps
Reach(v, S, n) ==
  IF n = 0 THEN S
  ELSE Reach(v, S \cup UNION {v[p].downstream : p \in S \cap DOMAIN v}, n - 1)

\* the files transitively downstream of path, path itself left out
Downstream(v, path) == Reach(v, v[path].downstream, Cardinality(Paths)) \ {path}

\* C1: after any call of Jobs.extend on a running queue, whatever the batch, no
\* two pending jobs share a path.
C1_NoTwoPendingJobsSharePath ==
  \A i, j \in DOMAIN jobs.q : i # j => jobs.q[i].path # jobs.q[j].path

\* C2: on a running queue every pending job is eventually dequeued by the worker
\* with no further call of extend (the stop of the queue and the loss of the
\* worker thread to a panic or a blocked mutex discharge the obligation).
C2_PendingJobsAreProcessed ==
  \A p \in Paths :
    (jobs.running /\ p \in PendingPaths) ~> (wjob.path = p \/ ~jobs.running \/ WorkerLost)

\* C3: when the worker completes an Elaborate job for a file, every file
\* transitively downstream of it has a cache that is not Ready and a pending
\* DepChange job.
C3_ElaborateDirtiesDownstream ==
  [][(wpc = "elab" /\ wjob.kind = "Elaborate" /\ wpc' = "start"
        /\ jobs.running /\ wjob.path \in DOMAIN vfs')
       => \A d \in Downstream(vfs', wjob.path) \cap DOMAIN vfs' :
            /\ vfs'[d].parsed.st # "Ready"
            /\ \E i \in DOMAIN jobs'.q : jobs'.q[i] = DepChange(d)]_vars

\* C4: for every edge a -> b recorded by the VFS (b is in a's downstream set),
\* the last completed elaboration of b reported a in its deps (states in which
\* the worker thread died in the middle of update_downstream are left out).
C4_EdgesMatchLastDeps ==
  wpc # "panicked" =>
    \A a \in DOMAIN vfs : \A b \in vfs[a].downstream : a \in lastDeps[b]

\* C5: the id returned by Contexts.extend(c, v, t) iterates (v, t) first and
\* then exactly what rev_iter(c) yielded.
C5_ExtendPrependsEntry ==
  lastExt.valid => RevIter(ctxs, lastExt.ret) = <<lastExt.entry>> \o lastExt.pre

\* C6: no call of extend changes what rev_iter yields on an id handed out
\* earlier (ROOT or the result of an earlier extend).
C6_IssuedIdsPersist ==
  [][\A id \in issued : RevIter(ctxs', id) = RevIter(ctxs, id)]_vars

\* C6 witness: two divergent extensions of one prefix coexist, each with its id
\* handed out, after a linear extension of one of them.
C6_Witness ==
  \E a, b \in issued :
    /\ a.buf # 0 /\ b.buf # 0 /\ a.buf # b.buf
    /\ Buf(ctxs, a.buf).parent = Buf(ctxs, b.buf).parent
    /\ Len(Buf(ctxs, a.buf).vars) = 2

\* the ids C7 speaks of: those handed out and the parents stored in buffers
KnownIds == issued \cup {ctxs[k].parent : k \in DOMAIN ctxs}

RECURSIVE ReachesRoot(_, _)
\* following parent links from buffer b reaches buffer 0 within n steps
ReachesRoot(b, n) ==
  \/ b = ROOT.buf
  \/ n > 0 /\ Buf(ctxs, b).parent.buf \in 0..(Len(ctxs) - 1)
           /\ ReachesRoot(Buf(ctxs, b).parent.buf, n - 1)

\* C7: every known context id (buf, i) has i <= |buf.vars|, buffer 0's parent
\* is ROOT, and the parent links of every buffer lead to buffer 0.
C7_IdsInRangeAndRooted ==
  /\ \A id \in KnownIds :
       id.buf \in 0..(Len(ctxs) - 1) /\ id.i <= Len(Buf(ctxs, id.buf).vars)
  /\ Buf(ctxs, 0).parent = ROOT
  /\ \A b \in 0..(Len(ctxs) - 1) : ReachesRoot(b, Len(ctxs))

\* C7 witness: a buffer whose parent is an id of another non-root buffer, so
\* that the parent chain has two links
C7_Witness ==
  \E b \in 1..(Len(ctxs) - 1) :
    /\ Buf(ctxs, b).parent.buf # 0
    /\ Buf(ctxs, b).parent \in issued
    /\ [buf |-> b, i |-> 1] \in issued

\* C8: after didOpen for path p with text t is handled, the VFS maps p to a file
\* whose content is t, whether p was absent or present, and an Elaborate job
\* for p at position (0,0) is pending.
C8_DidOpenInstallsText ==
  [][\A p \in Paths, t \in Texts :
       ((\E ord \in Orders : DidOpen(p, t, ord)) /\ dpc' = "recv" /\ vfsLock = "free")
         => /\ p \in DOMAIN vfs'
            /\ vfs'[p].text = t
            /\ \E i \in DOMAIN jobs'.q : jobs'.q[i] = Elaborate(p, "p0")]_vars

\* C9: the handling of every didOpen, didChange and didClose runs to completion:
\* the dispatcher thread never locks a mutex it already holds.
C9_HandlersRunToCompletion == dpc \in {"recv", "exited"}

\* C10: after Jobs.stop() the worker thread eventually returns from new_worker,
\* wherever it was when stop was called (a worker lost to a panic or to a
\* blocked mutex discharges the obligation).
C10_WorkerReturnsAfterStop ==
  (~jobs.running) ~> (wpc = "done" \/ WorkerLost)

\* C11: every request id whose cancellation flag has been set, by $/cancelRequest
\* or by a Response of the client, eventually leaves OpenRequests, and no
\* response carrying an error is ever sent.
C11_CancelledRequestsLeave ==
  /\ \A id \in ReqIds : (id \in DOMAIN reqs /\ reqs[id]) ~> (id \notin DOMAIN reqs)
  /\ [](\A id \in ReqIds : resps[id].err = 0)

\* C11 witness: a request whose flag is set is open with its handler still to
\* run, after an earlier request of the same id was answered
C11_Witness ==
  \E id \in ReqIds :
    id \in DOMAIN reqs /\ reqs[id] /\ handlers[id] > 0 /\ resps[id].ok > 0

\* C12: when didClose is handled for an open file whose text was changed by
\* didChange since it was opened, the path leaves the VFS and a DepChange job is
\* pending for every open file transitively downstream of it.
C12_CloseEditedDirtiesDownstream ==
  [][\A p \in Paths :
       ((\E ord \in Orders : DidClose(p, ord)) /\ p \in edited /\ vfsLock = "free"
          /\ jobs.running)
         => /\ p \notin DOMAIN vfs'
            /\ \A d \in Downstream(vfs, p) \cap DOMAIN vfs' :
                 \E i \in DOMAIN jobs'.q : jobs'.q[i] = DepChange(d)]_vars

\* C13: when didChange is handled for an open file whose cache is Ready, the
\* cache becomes Dirty and keeps the AST it had.
C13_ChangeMakesCacheDirty ==
  [][\A p \in Paths :
       ((\E t \in Texts, s \in Positions : DidChange(p, t, s)) /\ p \in DOMAIN vfs
          /\ vfsLock = "free" /\ vfs[p].parsed.st = "Ready")
         => vfs'[p].parsed = DirtyCache(vfs[p].parsed.ast)]_vars

\* C14: when the processing of a job fails (the worker thread dies in it), the
\* downstream set of every file is what it was before.
C14_FailedJobKeepsGraph ==
  [][(wpc \in {"job", "elab"} /\ wpc' = "panicked")
       => \A p \in DOMAIN vfs : p \in DOMAIN vfs' /\ vfs'[p].downstream = vfs[p].downstream]_vars

\* C15: when the handling of a message fails in the dispatcher (the loop prints
\* an error), the loop goes on receiving and the VFS map with every file's text
\* and cache, the job queue and OpenRequests are what they were.
C15_FailedMessageChangesNothing ==
  [][(msgs' = msgs + 1 /\ derr' # "none")
       => (dpc' = "recv" /\ vfs' = vfs /\ jobs' = jobs /\ reqs' = reqs)]_vars

\* C15 witness: a Response to an unknown request id has failed while a file and
\* another request are open and a job is pending
C15_Witness ==
  /\ derr = "response to unknown request"
  /\ DOMAIN vfs # {}
  /\ DOMAIN reqs # {}
  /\ jobs.q # <<>>

\* an As into a type that exists (every IntTy but nat) has been applied to arg1
AsApplied == ires.kind = "unop" /\ ires.op.op = "As" /\ ires.op.ty # UInt("Inf")

\* C16: for every integer n and every IntTy T other than UInt(Inf), T.contains(n)
\* holds exactly when Unop::As(T).apply_int(n) returns Some(n).
C16_ContainsIffAsReturnsInput ==
  AsApplied => (Contains(ires.op.ty, arg1) <=> ires.res = Some(arg1))

\* C16 witness: 2^32, the first integer above u32, has been cast to u32 and did
\* not come back
C16_Witness ==
  ires.op = As(UInt("S32")) /\ arg1 = Pow2(32) /\ ires.res = Some(Big(0))

\* a - b is a multiple of 2^bits
Congruent(a, b, bits) == \A i \in 1..(bits \div 8) : Digit(BigSub(a, b), i) = 0

\* C17: As(Int(Inf)) returns n; As(UInt(sz)) for finite sz returns the value of
\* [0, 2^sz) congruent to n modulo 2^sz; As(Int(sz)) returns the value of
\* [-2^(sz-1), 2^(sz-1)) congruent to n modulo 2^sz, so that As(Int(S8)) of 130
\* is -126; the result is a member of the target type.
C17_AsTruncatesIntoTarget ==
  AsApplied =>
    LET ty == ires.op.ty
        r == ires.res.val
    IN /\ ires.res.st = "Some"
       /\ ty.size = "Inf" => r = arg1
       /\ ty.size # "Inf" =>
            /\ Congruent(r, arg1, Bits(ty.size))
            /\ IF ty.kind = "UInt"
               THEN BigLe(Big(0), r) /\ BigLt(r, Pow2(Bits(ty.size)))
               ELSE BigLe(BigNeg(Pow2(Bits(ty.size) - 1)), r)
                      /\ BigLt(r, Pow2(Bits(ty.size) - 1))
       /\ Contains(ty, r)
       /\ (ty = SInt("S8") /\ arg1 = Big(130)) => r = Big(-126)

\* C17 witness: 130 has been cast to i8 and gave -126
C17_Witness ==
  ires.op = As(SInt("S8")) /\ arg1 = Big(130) /\ ires.res = Some(Big(-126))

\* C18: BitNot(sz).apply_int(x) for finite sz returns Some(2^sz - x - 1) when x
\* is in [0, 2^sz) and None otherwise; BitNot(Inf).apply_int(x) returns
\* Some(-x - 1) for every x.
C18_BitNotComplements ==
  (ires.kind = "unop" /\ ires.op.op = "BitNot") =>
    IF ires.op.ty.size = "Inf"
    THEN ires.res = Some(BigSub(BigNeg(arg1), Big(1)))
    ELSE IF BigLe(Big(0), arg1) /\ BigLt(arg1, Pow2(Bits(ires.op.ty.size)))
         THEN ires.res = Some(BigSub(BigSub(Pow2(Bits(ires.op.ty.size)), arg1), Big(1)))
         ELSE ires.res = None

\* C18 witness: the 16-bit complement of 5 has been computed, and is 65530
C18_Witness ==
  ires.op = BitNot("S16") /\ arg1 = Big(5) /\ ires.res = Some(Big(65530))

\* the operations the claims list as keeping natural numbers natural
NatBinops ==
  {Binop(b) : b \in {"Add", "Mul", "Max", "Min", "BitAnd", "BitOr", "BitXor", "Shl", "Shr"}}

\* C19: for nonnegative n1 and n2, an operation whose preserves_nat() is true
\* returns no negative result; preserves_nat() is true for exactly Add, Mul,
\* Max, Min, BitAnd, BitOr, BitXor, Shl and Shr; Sub applied to 3 and 5
\* returns -2.
C19_PreservesNat ==
  (ires.kind = "binop" /\ ires.op \in IntBinops) =>
    /\ (PreservesNat(ires.op).val /\ ~arg1.neg /\ ~arg2.neg /\ ires.res.st = "Some")
         => ~ires.res.val.neg
    /\ PreservesNat(ires.op) = Ret(ires.op \in NatBinops)
    /\ (ires.op = Binop("Sub") /\ arg1 = Big(3) /\ arg2 = Big(5)) => ires.res = Some(Big(-2))

\* C19 witness: Sub has been applied to 3 and 5 and gave -2
C19_Witness ==
  ires.op = Binop("Sub") /\ arg1 = Big(3) /\ arg2 = Big(5) /\ ires.res = Some(Big(-2))

\* b has sampled inputs n1, n2 in some UInt(sz), sz finite, whose result is not
\* in UInt(sz)
LeavesUsize(b) ==
  \E sz \in FiniteSizes :
    \E n1, n2 \in {n \in Samples : Contains(UInt(sz), n)} :
      /\ b.op \in {"Shl", "Shr"} => BigLe(n2, Big(MaxShift))
      /\ ApplyIntInt(b, n1, n2).st = "Some"
      /\ ~Contains(UInt(sz), ApplyIntInt(b, n1, n2).val)

\* C20: preserves_usize() is true exactly for the operations whose result stays
\* in UInt(sz) for every finite sz and all inputs in UInt(sz): each operation
\* it is false for has inputs in some UInt(sz) whose result leaves UInt(sz).
C20_PreservesUsizeIffStays ==
  (ires.kind = "binop" /\ ires.op \in IntBinops) =>
    (PreservesUsize(ires.op).val <=> ~LeavesUsize(ires.op))

\* C21: the order of the integer types is inclusion of their value sets: for
\* any two of the ten types, t1 <= t2 exactly when every integer t1 contains
\* is contained in t2, Int(Inf) and UInt(Inf) included.
C21_OrderIsInclusion ==
  tcmp.valid =>
    (tcmp.le <=> \A n \in Samples : Contains(tcmp.t1, n) => Contains(tcmp.t2, n))

\* an integer operation or a bool-valued operation was applied to a category
\* of arguments it is not of
IntMismatch ==
  \/ ires.kind = "unop" /\ ires.op.op = "Not"
  \/ ires.kind = "binop" /\ ires.op.op \in {"Lt", "Le", "Eq", "Ne", "And", "Or"}

BoolMismatch ==
  \/ bres.fn = "apply_bool" /\ bres.op.op # "Not"
  \/ bres.fn = "apply_int_bool" /\ bres.op.op \notin {"Lt", "Le", "Eq", "Ne"}
  \/ bres.fn = "apply_bool_bool" /\ bres.op.op \notin {"And", "Or"}

\* the inputs of the integer operation applied are out of its range
OutOfRange ==
  \/ ires.kind = "unop" /\ ires.op.op = "BitNot" /\ ires.op.ty.size # "Inf"
       /\ ~TryFrom(FALSE, Bits(ires.op.ty.size), arg1)
  \/ ires.kind = "binop" /\ ires.op.op \in {"Shl", "Shr"} /\ ~FitsUsize(arg2)

\* C22 (original): every category-mismatched fold panics and returns nothing
\* (apply_bool on Neg, BitNot, As; apply_int on Not; apply_int_int on a
\* comparison or boolean operation; apply_int_bool on a non-comparison;
\* apply_bool_bool on a non-boolean operation), and None is returned only for
\* inputs out of the range of an integer-returning operation.
C22_MismatchAlwaysPanics ==
  /\ IntMismatch => ires.res.st = "panic"
  /\ BoolMismatch => bres.res.panic
  /\ ires.res.st = "None" /\ ires.kind # "none" => OutOfRange

\* C22 (amended): the bool-valued folds apply_bool, apply_int_bool and
\* apply_bool_bool panic on an operation of another category; apply_int on Not
\* and apply_int_int on a comparison or boolean operation return None without
\* panicking; apart from these None is returned exactly for inputs out of range.
C22_BoolFoldsPanicIntFoldsNone ==
  /\ BoolMismatch <=> bres.res.panic
  /\ IntMismatch => ires.res.st = "None"
  /\ ires.kind # "none" => (ires.res.st = "None" <=> IntMismatch \/ OutOfRange)

C22_Witness ==
  /\ ires.kind = "binop" /\ ires.op.op = "Lt" /\ ires.res.st = "None"
  /\ FitsUsize(arg2) /\ arg1 # arg2

\* C23: Cfg.new_block appends a block without terminator and returns the
\* number of blocks there were, leaving the blocks before it and their ids as
\* they are; BasicBlock.terminate stores the terminator of a block that has
\* none, and panics on a block that has one.
C23_NewBlockAndTerminate ==
  [][/\ (\E parent \in issued : CfgNewBlock(parent)) =>
          /\ lastBlk'.id = Len(blocks)
          /\ Len(blocks') = Len(blocks) + 1
          /\ blocks'[Len(blocks')].term = NoTerm
          /\ \A i \in 1..Len(blocks) : blocks'[i] = blocks[i]
     /\ \A id \in 0..(MaxBlocks - 1), term \in Terminators :
          CfgTerminate(id, term) =>
            /\ \A i \in 1..Len(blocks) : i # id + 1 => blocks'[i] = blocks[i]
            /\ Len(blocks') = Len(blocks)
            /\ IF blocks[id + 1].term = NoTerm
               THEN blocks'[id + 1].term = term /\ ~lastBlk'.panic
               ELSE lastBlk'.panic]_vars

C23_Witness ==
  /\ lastBlk.op = "terminate" /\ lastBlk.panic
  /\ Len(blocks) = MaxBlocks
  /\ \E i \in 1..Len(blocks) : blocks[i].term = NoTerm

\* C24: Jobs.extend(new) with a non-empty batch on a running queue leaves the
\* prior jobs whose path is in no job of new, in their prior order, followed
\* by the jobs of new in batch order (so the pending paths are the union of
\* the prior ones and the batch's), and notifies the condvar; on a stopped
\* queue or with an empty batch the queue is unchanged and nothing is notified.
C24_ExtendKeepsOrderAndNotifies ==
  [][\A new \in Batches :
       ApiExtend(new) =>
         IF new # <<>> /\ jobs.running
         THEN /\ jobs'.running
              /\ jobs'.q = SelectSeq(jobs.q, LAMBDA j : \A i \in DOMAIN new : new[i].path # j.path)
                             \o new
              /\ {jobs'.q[i].path : i \in DOMAIN jobs'.q}
                   = {jobs.q[i].path : i \in DOMAIN jobs.q} \cup {new[i].path : i \in DOMAIN new}
              /\ wpc = "waiting" => wpc' = "woken"
         ELSE jobs' = jobs /\ wpc' = wpc]_vars

C24_Witness ==
  /\ jobs.running
  /\ wpc = "woken"
  /\ Len(jobs.q) = 3
  /\ jobs.q[1].path # jobs.q[2].path
  /\ jobs.q[1].kind = "DepChange" /\ jobs.q[3].kind = "Elaborate"

\* C25: Contexts.extend on an id (buf, i), L the length of buf's variable
\* list: if i = L no buffer is allocated, the variable is appended to buf and
\* (buf, L + 1) is returned; if i < L exactly one fresh buffer is allocated,
\* its parent (buf, i), holding the new variable alone, and (fresh, 1) is
\* returned; no entry of a buffer there was is removed, overwritten or copied.
C25_ExtendLinearOrFresh ==
  [][\A c \in issued, var \in VarIds, ty \in ExprTys :
       CtxExtend(c, var, ty) =>
         LET L == Len(Buf(ctxs, c.buf).vars) IN
         /\ \A b \in 1..Len(ctxs) :
              /\ ctxs'[b].parent = ctxs[b].parent
              /\ SubSeq(ctxs'[b].vars, 1, Len(ctxs[b].vars)) = ctxs[b].vars
              /\ b # c.buf + 1 => ctxs'[b] = ctxs[b]
         /\ IF c.i = L
            THEN /\ Len(ctxs') = Len(ctxs)
                 /\ ctxs'[c.buf + 1].vars = Append(ctxs[c.buf + 1].vars, <<var, ty>>)
                 /\ lastExt'.ret = [buf |-> c.buf, i |-> L + 1]
            ELSE /\ Len(ctxs') = Len(ctxs) + 1
                 /\ ctxs'[c.buf + 1] = ctxs[c.buf + 1]
                 /\ ctxs'[Len(ctxs')] = [parent |-> c, vars |-> <<(<<var, ty>>)>>]
                 /\ lastExt'.ret = [buf |-> Len(ctxs), i |-> 1]]_vars

\* the worker goes through update_downstream in this step: it leaves the second
\* half of a job whose deps differ from the previous ones
UpdatesDownstream ==
  wpc = "elab" /\ wpc' \in {"start", "panicked"} /\ wres.old_deps # wres.deps

\* C26: update_downstream(old, new, to), every path of old and new being in the
\* VFS, removes to from the downstream set of each file in old but not in new,
\* adds to to the downstream set of each file in new but not in old, and
\* leaves every other downstream set and every other member of the changed
\* sets as they were.
C26_UpdateAppliesSymmetricDifference ==
  [][(UpdatesDownstream /\ (wres.old_deps \cup wres.deps) \subseteq DOMAIN vfs)
       => /\ wpc' = "start"
          /\ DOMAIN vfs' = DOMAIN vfs
          /\ \A p \in DOMAIN vfs :
               vfs'[p].downstream =
                 IF p \in wres.old_deps \ wres.deps THEN vfs[p].downstream \ {wjob.path}
                 ELSE IF p \in wres.deps \ wres.old_deps
                      THEN vfs[p].downstream \cup {wjob.path}
                      ELSE vfs[p].downstream]_vars

\* C26 witness: a job of B has been finished with deps [A]: B is in A's
\* downstream set and not in its own
C26_Witness ==
  /\ wpc = "start" /\ wjob = NoJob /\ jobs.q = <<>>
  /\ DOMAIN vfs = Paths
  /\ lastDeps["B"] = {"A"}
  /\ vfs["B"].parsed.st = "Ready" /\ vfs["B"].parsed.deps = {"A"}
  /\ vfs["A"].downstream = {"A", "B"}
  /\ vfs["B"].downstream = {}

\* C29: a DepChange job for a file whose cache holds an AST (Dirty or Ready)
\* never calls the parser: the AST handed to the elaborator, and stored in the
\* resulting Ready cache, is the cached one, the index of reusable statements
\* is its number of statements, and the previous environment is passed on
\* only if the cache was Ready; only with an empty cache is the text parsed
\* from scratch.
C29_DepChangeReusesAst ==
  [][/\ (wpc = "job" /\ wpc' = "elab" /\ wjob.kind = "DepChange") =>
          LET c == vfs[wjob.path].parsed IN
          IF c.st # "None"
          THEN /\ ~wres'.parser
               /\ wres'.ast = c.ast
               /\ wres'.idx = c.ast.stmts
               /\ wres'.env <=> c.st = "Ready"
          ELSE /\ wres'.parser
               /\ wres'.ast = Parse(vfs[wjob.path].text, FALSE, "p0").ast
               /\ wres'.idx = 0
               /\ ~wres'.env
     /\ (wpc = "elab" /\ wpc' = "start" /\ wjob.kind = "DepChange") =>
          /\ vfs'[wjob.path].parsed.st = "Ready"
          /\ vfs'[wjob.path].parsed.ast = wres.ast]_vars

\* C29 witness: the worker is elaborating for a DepChange job the cached AST of
\* a Dirty cache, which is not the AST of the file's text
C29_Witness ==
  /\ wpc = "elab" /\ wjob.kind = "DepChange"
  /\ ~wres.parser /\ ~wres.env
  /\ wres.ast.source # vfs[wjob.path].text
  /\ wres.idx = 2

\* the worker completes the job it has elaborated in this step
FinishesJob == wpc = "elab" /\ wpc' = "start"

\* the worker is lost in the second half of a job: the VFS mutex it needs for
\* update_downstream is poisoned or held for ever, or a lookup panics
FailsInJob == wpc = "elab" /\ wpc' \in {"panicked", "blocked"}

AcyclicGraph(v) ==
  \A p \in DOMAIN v :
    /\ p \notin Reach(v, v[p].downstream, Cardinality(GraphPaths))
    /\ v[p].downstream \subseteq DOMAIN v

\* C27: VFS.dirty(path) on an acyclic downstream graph pushes a DepChange job
\* for path and for every file transitively downstream of it; each of these
\* files with a Ready cache gets a Dirty cache holding the same AST, a Dirty
\* cache stays as it is and an empty cache stays empty; no text, no
\* downstream set and no other file are changed.
C27_DirtyMarksDownstream ==
  [][\A path \in GraphPaths :
       (msgs = 0 /\ path \in DOMAIN vfs /\ AcyclicGraph(vfs)
          /\ \E ord \in GraphOrders : ApiDirty(path, ord))
         => LET T == Reach(vfs, {path}, Cardinality(GraphPaths)) IN
            /\ dpc' = "recv"
            /\ {jobs'.q[i] : i \in DOMAIN jobs'.q} = {DepChange(p) : p \in T}
            /\ DOMAIN vfs' = DOMAIN vfs
            /\ \A p \in T :
                 vfs'[p].parsed =
                   IF vfs[p].parsed.st = "Ready"
                   THEN [st |-> "Dirty", ast |-> vfs[p].parsed.ast, deps |-> {}]
                   ELSE vfs[p].parsed
            /\ \A p \in DOMAIN vfs :
                 /\ vfs'[p].text = vfs[p].text
                 /\ vfs'[p].saved = vfs[p].saved
                 /\ vfs'[p].downstream = vfs[p].downstream
                 /\ p \notin T => vfs'[p] = vfs[p]]_vars

\* C27 witness: dirty(A) has returned on the chain A -> B -> C: the three jobs
\* are queued and the cache of C, Ready before, is Dirty with its AST
C27_Witness ==
  /\ msgs = 1 /\ dpc = "recv"
  /\ jobs.q = <<DepChange("A"), DepChange("B"), DepChange("C")>>
  /\ DOMAIN vfs = GraphPaths
  /\ vfs["A"].downstream = {"B"} /\ vfs["B"].downstream = {"C"} /\ vfs["C"].downstream = {}
  /\ vfs["C"].parsed = DirtyCache(Parse("t1", FALSE, "p0").ast)
  /\ vfs["A"].parsed = NoCache

\* C30: the VFS map mutex guards the map alone: in VFS.get, open_virt, close,
\* set_downstream and dirty no thread locks a mutex of a file, or the VFS mutex
\* again, while it holds the VFS mutex.
C30_VfsMutexGuardsOnlyMap ==
  [][\A path \in Paths :
       /\ (vfsLock = "free" /\ \E text \in Texts, ord \in Orders : DidOpen(path, text, ord))
            => LocksUnderVfs("open_virt", vfs, path) = {}
       /\ (vfsLock = "free" /\ \E ord \in Orders : DidClose(path, ord))
            => LocksUnderVfs("close", vfs, path) = {}
       /\ (wpc = "job" /\ wpc' \in {"elab", "start"} /\ wjob.path = path)
            => LocksUnderVfs("get", vfs, path) = {}
       /\ (UpdatesDownstream /\ wjob.path = path)
            => \A from \in wres.old_deps \cup wres.deps :
                 LocksUnderVfs("set_downstream", vfs, from) = {}]_vars

\* the thread of evs never calls lock() on the text mutex of a file while it
\* holds the guard of the parsed mutex of that file
TextBeforeParsed(evs) ==
  \A k \in DOMAIN evs :
    (evs[k].op = "lock" /\ evs[k].m[1] = "text")
      => ParsedMutex(evs[k].m[2]) \notin HeldBefore(evs, k)

\* C31: a thread that holds both the text mutex and the parsed mutex of a file
\* locked text first: no thread locks a file's text mutex while it holds that
\* file's parsed mutex, in the worker's Elaborate and DepChange arms whatever
\* the cache holds (None, Dirty, Ready), in the dispatcher and in VFS.dirty.
C31_TextLockedBeforeParsed ==
  [][(wpc = "job" /\ wpc' = "elab") =>
       /\ TextBeforeParsed(IF wjob.kind = "Elaborate"
                           THEN ElaborateLocks(vfs[wjob.path].parsed, wjob.path)
                           ELSE DepChangeLocks(vfs[wjob.path].parsed, wjob.path))
       /\ \A p \in DOMAIN vfs, ord \in Orders :
            /\ TextBeforeParsed(DidChangeLocks(p))
            /\ TextBeforeParsed(DirtyEvents({}, vfs, p, ord).ev)
            /\ TextBeforeParsed(CloseEvents(vfs, p, ord))]_vars
\* the thread of evs holds the guard of no downstream mutex when it calls
\* VFS::dirty
NoDownstreamHeldAtCall(evs) ==
  \A k \in DOMAIN evs :
    evs[k].op = "dirty" => \A m \in HeldBefore(evs, k) : m[1] # "downstream"

\* C32: no downstream mutex is held across a recursive call of VFS.dirty: in
\* dirty, open_virt and close the downstream set is cloned and the guard of
\* its mutex dropped before the first call of dirty in the loop.
C32_DownstreamReleasedBeforeRecursion ==
  [][\A path \in GraphPaths, ord \in GraphOrders :
       (msgs = 0 /\ ApiDirty(path, ord)) =>
         /\ NoDownstreamHeldAtCall(DirtyEvents({}, vfs, path, ord).ev)
         /\ NoDownstreamHeldAtCall(OpenVirtEvents(vfs, path, ord))
         /\ NoDownstreamHeldAtCall(CloseEvents(vfs, path, ord))]_vars
\* C33 (original): the id of every recognized request is in OpenRequests with
\* its flag false before its handler thread starts to run, so no handler runs
\* for an id not yet inserted, and a $/cancelRequest that arrives after the
\* request finds the entry unless the handler has finished.
C33_RequestOpenUntilHandlerFinishes ==
  [][\A id \in ReqIds :
       /\ RequestMsg(id) => (id \in DOMAIN reqs' /\ ~reqs'[id])
       /\ handlers'[id] > 0 => id \in DOMAIN reqs'
       /\ (CancelRequest(id) /\ handlers[id] > 0) => (id \in DOMAIN reqs' /\ reqs'[id])]_vars

\* C33 (amended): the same for the requests whose id was not requested again
\* while a request of that id was open: the entry is there, inserted with its
\* flag false when the handler was spawned, as long as the handler has not
\* finished, and a $/cancelRequest in between finds it and sets its flag.
C33_RequestOpenUntilHandlerFinishesDistinctIds ==
  [][\A id \in ReqIds :
       /\ RequestMsg(id) => (id \in DOMAIN reqs' /\ ~reqs'[id])
       /\ (handlers'[id] > 0 /\ id \notin reused') => id \in DOMAIN reqs'
       /\ (CancelRequest(id) /\ handlers[id] > 0 /\ id \notin reused)
            => (id \in DOMAIN reqs' /\ reqs'[id])]_vars

\* C33 witness: two requests are open, ids distinct, their handlers still to
\* run; a $/cancelRequest found the first, whose id had been used and answered
\* before
C33_Witness ==
  /\ reused = {}
  /\ handlers = [i \in ReqIds |-> 1]
  /\ reqs = [i \in ReqIds |-> i = "r1"]
  /\ resps["r1"].ok = 1
\* C34: a $/cancelRequest or a Response of the client for an id in OpenRequests
\* sets the flag of that id and changes no other flag and no entry; a flag
\* that is true is never set back to false (a new request puts a fresh flag in
\* the map); a $/cancelRequest for an id not in OpenRequests is ignored
\* without error, and a Response for such an id is reported as an error while
\* the dispatcher goes on.
C34_CancelSetsOneFlag ==
  [][\A id \in ReqIds :
       /\ ((ResponseMsg(id) \/ CancelRequest(id)) /\ id \in DOMAIN reqs) =>
            /\ DOMAIN reqs' = DOMAIN reqs
            /\ reqs'[id]
            /\ \A j \in DOMAIN reqs \ {id} : reqs'[j] = reqs[j]
            /\ derr' = "none" /\ dpc' = "recv"
       /\ (CancelRequest(id) /\ id \notin DOMAIN reqs) =>
            (reqs' = reqs /\ derr' = "none" /\ dpc' = "recv")
       /\ (ResponseMsg(id) /\ id \notin DOMAIN reqs) =>
            (reqs' = reqs /\ derr' = "response to unknown request" /\ dpc' = "recv")
       /\ (id \in DOMAIN reqs /\ reqs[id] /\ id \in DOMAIN reqs' /\ ~RequestMsg(id))
            => reqs'[id]]_vars

\* C34 witness: the flag of r2 was set and is still set after a Response for
\* r1, which is not open, was reported as an error; the dispatcher is receiving
C34_Witness ==
  /\ DOMAIN reqs = {"r2"} /\ reqs["r2"]
  /\ handlers["r2"] = 1
  /\ derr = "response to unknown request"
  /\ dpc = "recv"
\* C35: no execution looks a path up that is missing from the VFS in
\* VFS.set_downstream or VFS.dirty, which unwrap the lookup: after any didOpen,
\* didChange, didClose and job processing, every path of the deps lists handed
\* to update_downstream that set_downstream is called on, and every path of a
\* downstream set that dirty is called on, is in the VFS when it is looked up.
C35_LookupsFindTheirPath ==
  [][/\ (UpdatesDownstream /\ vfsLock = "free") =>
          /\ (wres.old_deps \ wres.deps) \cup (wres.deps \ wres.old_deps) \subseteq DOMAIN vfs
          /\ wpc' = "start"
     /\ \A path \in Paths, ord \in Orders :
          /\ (\E text \in Texts : DidOpen(path, text, ord))
               => OpenVirt(vfs, vfsLock, path, "t0", ord).st # "panic"
          /\ DidClose(path, ord) => Close(vfs, vfsLock, path, ord).st # "panic"]_vars
\* C36: VFS.dirty(path) returns, having pushed finitely many jobs, on every
\* downstream graph update_downstream can build from the dependency lists of
\* the open files, the graphs with cycles included (two files that depend on
\* each other, a file that lists itself).
C36_DirtyReturnsOnEveryGraph ==
  [][\A path \in GraphPaths :
       (/\ msgs = 0 /\ path \in DOMAIN vfs
        /\ \A p \in DOMAIN vfs : vfs[p].downstream \subseteq DOMAIN vfs
        /\ \E ord \in GraphOrders : ApiDirty(path, ord))
         => /\ dpc' = "recv"
            /\ path \in {jobs'.q[i].path : i \in DOMAIN jobs'.q}]_vars
\* the arm of the worker that processes job leaves the parser out for some
\* state of the cache
SkipsParsing(job) ==
  \E c \in Caches, t \in Texts :
    ~(IF job.kind = "Elaborate" THEN ElaborateArm(c, t, job.start)
      ELSE DepChangeArm(c, t)).parser

\* C37: an edit is never lost to the dedup of the queue: a pending Elaborate
\* job for p, as didChange enqueues it, stays pending as a job for p that parses
\* the text of p until the worker dequeues it, whatever jobs for p are enqueued
\* in between (another Elaborate, or the DepChange(p) that dirty pushes); it is
\* never replaced by a job that skips parsing.
C37_PendingElaborateNotReplaced ==
  [][\A p \in Paths :
       (/\ jobs'.running
        /\ \E i \in DOMAIN jobs.q : jobs.q[i].path = p /\ ~SkipsParsing(jobs.q[i]))
         => \/ wjob' # wjob /\ wjob'.path = p /\ ~SkipsParsing(wjob')
            \/ \E i \in DOMAIN jobs'.q : jobs'.q[i].path = p /\ ~SkipsParsing(jobs'.q[i])]_vars
\* C38: whenever the cache of a file is Ready, the diagnostics last published
\* for the file are the parse errors of the AST the cache holds, after any
\* Elaborate and DepChange jobs for the file: each job that leaves the cache
\* Ready has published the parse errors of the AST it stores.
C38_DiagnosticsMatchReadyCache ==
  [][(FinishesJob /\ wjob.path \in DOMAIN vfs' /\ vfs'[wjob.path].parsed.st = "Ready")
       => diags'[wjob.path] = ParseErrs(vfs'[wjob.path].parsed.ast.source)]_vars
\* C39: <= on the ten integer types is a partial order (reflexive,
\* antisymmetric, transitive) and partial_cmp, <, > and >= agree with it:
\* partial_cmp is Equal exactly on equal types, Less or Greater exactly when
\* <= holds in one direction only, None exactly when it holds in neither.
C39_LeIsPartialOrder ==
  tcmp.valid =>
    LET a == tcmp.t1
        b == tcmp.t2
        ba == IntTyLe(b, a)
    IN /\ a = b => tcmp.le
       /\ (tcmp.le /\ ba) => a = b
       /\ \A c \in IntTys : (tcmp.le /\ IntTyLe(b, c)) => IntTyLe(a, c)
       /\ tcmp.cmp = "Equal" <=> a = b
       /\ tcmp.cmp = "Less" <=> (tcmp.le /\ ~ba)
       /\ tcmp.cmp = "Greater" <=> (~tcmp.le /\ ba)
       /\ tcmp.cmp = "None" <=> (~tcmp.le /\ ~ba)
       /\ tcmp.lt <=> tcmp.cmp = "Less"
       /\ tcmp.gt <=> tcmp.cmp = "Greater"
       /\ tcmp.ge <=> tcmp.cmp \in {"Greater", "Equal"}
       /\ tcmp.le <=> tcmp.cmp \in {"Less", "Equal"}

\* C39 witness: nat and int have been compared and are not comparable
C39_Witness ==
  /\ tcmp.valid /\ tcmp.t1 = UInt("Inf") /\ tcmp.t2 = SInt("Inf")
  /\ tcmp.cmp = "None" /\ ~tcmp.le /\ ~tcmp.ge

====
